---- MODULE Spec2Model ----
(***************************************************************************)
(* State-machine model of SimpleRequestCacheAdapter and its IDBStore       *)
(* (src/unnamed/part_000): the attach-time maintenance, the request and    *)
(* response interceptors, the cache-meta resolution, the explicit-cache    *)
(* rule, and the IndexedDB-backed entry store.  The host pipeline          *)
(* (execute -> request interceptors -> fetch -> response interceptors) and *)
(* the IndexedDB engine are modelled at their interface.                   *)
(***************************************************************************)
EXTENDS Integers, Sequences, FiniteSets, TLC

VARIABLES
  now,        \* Date.now(), in milliseconds
  sc,         \* the scenario: the environment and the client, fixed for a run
  ad,         \* per adapter: attached, readyPromise, dbPromise, waiting, maint, cc
  db,         \* per cache name: the object store, hash -> CacheEntry
  txq,        \* per cache name: the transactions created and not yet run
  ver,        \* per cache name and hash: the last mutation of that key (history)
  req,        \* per request slot: the execution in progress
  fetchCount, \* number of underlying fetches performed
  started     \* number of executions started

vars == <<now, sc, ad, db, txq, ver, req, fetchCount, started>>

env == <<sc>>

supported == sc.supported  \* typeof indexedDB !== 'undefined'
faulty == sc.faulty        \* whether the storage engine may fail an open or a request
opts == sc.opts            \* per adapter: the constructor options
cfgs == sc.cfgs            \* the request configurations the client issues
resps == sc.resps          \* the responses the network may give
conc == sc.conc            \* how many executions the client keeps in flight
clearers == sc.clearers    \* the adapters whose clearCache() the client calls
attachers == sc.attachers  \* the adapters the client attaches
requesters == sc.requesters  \* the adapters whose factory the client sends requests through

----------------------------------------------------------------------------
(* Bounds of the model *)

MaxTicks == 3
MaxExec == 3
MaxReqs == 2
MaxClears == 1

(* Program constants *)

MsPerSecond == 1000

TickMs == MsPerSecond

Adapters == {1, 2}
Names == {"n1", "n2"}
Reqs == 1..MaxReqs

----------------------------------------------------------------------------
(* CacheMeta values: meta.cache as the code inspects it with typeof.       *)
(* k: "undef" (absent), "num" (a number n), "obj" (an object; hasTtl/hasHb *)
(* say whether ttlSeconds is a number / hashBody is a boolean, a field     *)
(* that is not being absent), "str" (a string such as "abc"), "null".      *)

CM(k, n, hasTtl, hasHb, hb) == [k |-> k, n |-> n, hasTtl |-> hasTtl, hasHb |-> hasHb, hb |-> hb]
Undef == CM("undef", 0, FALSE, FALSE, FALSE)
Num(n) == CM("num", n, FALSE, FALSE, FALSE)
Obj(n, hb) == CM("obj", n, TRUE, TRUE, hb)
ObjTtl(n) == CM("obj", n, TRUE, FALSE, FALSE)
ObjHb(hb) == CM("obj", 0, FALSE, TRUE, hb)
EmptyObj == CM("obj", 0, FALSE, FALSE, FALSE)
Str == CM("str", 0, FALSE, FALSE, FALSE)
NullMeta == CM("null", 0, FALSE, FALSE, FALSE)

configDoesntConform(c) ==
  /\ c.k # "undef"
  /\ ~ ( \/ c.k = "num"
         \/ (c.k = "obj" /\ (c.hasTtl \/ c.hasHb)) )

ConfigError == [err |-> TRUE, ttlSeconds |-> 0, hashBody |-> FALSE]

(* Variant: a config that does not conform silently disables caching. *)
resolveCacheMetaConfigLenient(c) ==
  IF c.k = "undef" \/ configDoesntConform(c)
  THEN [err |-> FALSE, ttlSeconds |-> 0, hashBody |-> FALSE]
  ELSE [err |-> FALSE,
        ttlSeconds |-> IF c.k = "num" THEN c.n ELSE IF c.hasTtl THEN c.n ELSE 0,
        hashBody |-> (c.k = "obj" /\ c.hasHb /\ c.hb)]

(* Variant: a hashBody that is missing counts as true. *)
resolveCacheMetaConfigBodyDefault(c) ==
  IF c.k = "undef" THEN [err |-> FALSE, ttlSeconds |-> 0, hashBody |-> FALSE]
  ELSE IF configDoesntConform(c) THEN ConfigError
  ELSE [err |-> FALSE,
        ttlSeconds |-> IF c.k = "num" THEN c.n ELSE IF c.hasTtl THEN c.n ELSE 0,
        hashBody |-> (c.k = "obj" /\ (~c.hasHb \/ c.hb))]

resolveCacheMetaConfig(c) ==
  IF c.k = "undef" THEN [err |-> FALSE, ttlSeconds |-> 0, hashBody |-> FALSE]
  ELSE IF configDoesntConform(c) THEN ConfigError
  ELSE [err |-> FALSE,
        ttlSeconds |-> IF c.k = "num" THEN c.n ELSE IF c.hasTtl THEN c.n ELSE 0,
        hashBody |-> (c.k = "obj" /\ c.hasHb /\ c.hb)]

(* A request configuration: method, url, body, the effective meta.cache,   *)
(* meta.api.apiMeta.cache and whether meta.api.endpoint.meta has a cache   *)
(* key.                                                                    *)
Cfg(m, u, b, cache, api, ep) ==
  [method |-> m, url |-> u, body |-> b, cache |-> cache, api |-> api, epHasCache |-> ep]

(* Variants of isExplicitCache, each with one of its tests left out or     *)
(* changed: without the endpoint test; without the TTL comparison; with    *)
(* the comparison made only when an API-level cache is present.            *)
isExplicitCacheTtlOnly(config) ==
  resolveCacheMetaConfig(config.cache).ttlSeconds
    # resolveCacheMetaConfig(config.api).ttlSeconds

isExplicitCacheEndpointOnly(config) == config.epHasCache

isExplicitCacheApiRequired(config) ==
  IF config.epHasCache THEN TRUE
  ELSE /\ config.api.k # "undef"
       /\ resolveCacheMetaConfig(config.cache).ttlSeconds
            # resolveCacheMetaConfig(config.api).ttlSeconds

isExplicitCache(config) ==
  LET apiLevelTTL == resolveCacheMetaConfig(config.api).ttlSeconds
      currentTTL == resolveCacheMetaConfig(config.cache).ttlSeconds
  IN  IF config.epHasCache THEN TRUE
      ELSE currentTTL # apiLevelTTL

(* The filter option: absent, or a predicate of the request configuration. *)
Filters == {"none", "getOnly", "never"}

filterRejects(f, config) ==
  CASE f = "none" -> FALSE
    [] f = "getOnly" -> config.method # "GET"
    [] f = "never" -> TRUE

(* Variant: the fingerprint is asked for without the includeBody option. *)
getHashDefault(config, includeBody) ==
  [m |-> config.method, u |-> config.url, b |-> "-"]

(* controls.getHash({ includeBody }) *)
getHash(config, includeBody) ==
  [m |-> config.method, u |-> config.url, b |-> IF includeBody THEN config.body ELSE "-"]

----------------------------------------------------------------------------
(* Responses.  ct is the content-type header cut at ';' ("" when missing), *)
(* raw the body text.                                                      *)

Resp(ok, ct, raw) == [ok |-> ok, ct |-> ct, raw |-> raw]
NoResp == Resp(FALSE, "", "")

(* config.jsonMimeTypes / config.textMimeTypes matched against ct *)
isJSONResponse(ct) == ct \in {"application/json"}
isTextResponse(ct) == ct \in {"text/plain"}

(* Decoded bodies: t is "obj" (a parsed JSON value), "str" (text), "null"  *)
(* (JSON null, and readResponseSafely's skip result), "blob", "throw" (the *)
(* decoder raised).                                                        *)
Val(t, v) == [t |-> t, v |-> v]
NullVal == Val("null", "")
Thrown == Val("throw", "")

(* response.clone().json(): the raw texts that are JSON documents *)
JSONParse(raw) ==
  CASE raw = "{\"a\":1}" -> Val("obj", "a=1")
    [] raw = "{\"b\":1}" -> Val("obj", "b=1")
    [] raw = "null" -> NullVal
    [] OTHER -> Thrown

(* response.clone().text() *)
TextRead(raw) == Val("str", raw)

(* Variant: whatever is not JSON is read as text. *)
readResponseSafelyTextFallback(response) ==
  IF isJSONResponse(response.ct) /\ JSONParse(response.raw) # Thrown
  THEN JSONParse(response.raw)
  ELSE TextRead(response.raw)

readResponseSafely(response) ==
  LET viaJSON == IF isJSONResponse(response.ct) THEN JSONParse(response.raw) ELSE Thrown
      viaText == IF isTextResponse(response.ct) THEN TextRead(response.raw) ELSE Thrown
  IN  IF isJSONResponse(response.ct) /\ viaJSON # Thrown THEN viaJSON
      ELSE IF isTextResponse(response.ct) THEN viaText
      ELSE NullVal

(* A Response is an object with a body stream that can be read once:       *)
(* bodyUsed says the stream of the response the host handed over has been  *)
(* read.  Read is what a reader called with how = "json" or "text" gives,  *)
(* and the bodyUsed it leaves on that response.                            *)
Decode(how, raw) == IF how = "json" THEN JSONParse(raw) ELSE TextRead(raw)

(* Variant: response.json() / response.text(), reading the response itself *)
ReadDirect(response, bodyUsed, how) ==
  [val |-> IF bodyUsed THEN Thrown ELSE Decode(how, response.raw), bodyUsed |-> TRUE]

(* response.clone().json() / response.clone().text(): the reader consumes  *)
(* the stream of the clone; clone() raises on a body already used          *)
ReadClone(response, bodyUsed, how) ==
  [val |-> IF bodyUsed THEN Thrown ELSE Decode(how, response.raw), bodyUsed |-> bodyUsed]

(* bodyUsed of the response after readResponseSafely has run on it *)
readResponseSafelyLeaves(response, bodyUsed) ==
  LET j == IF isJSONResponse(response.ct) THEN ReadClone(response, bodyUsed, "json")
           ELSE [val |-> Thrown, bodyUsed |-> bodyUsed]
      t == IF isTextResponse(response.ct) THEN ReadClone(response, j.bodyUsed, "text")
           ELSE [val |-> Thrown, bodyUsed |-> j.bodyUsed]
  IN  IF isJSONResponse(response.ct) /\ j.val # Thrown THEN j.bodyUsed ELSE t.bodyUsed

(* What execute() resolves to for a fetched response: the host decodes the *)
(* body by content type (JSON parsed, text as text, anything else a Blob). *)
HostDecode(response) ==
  IF isJSONResponse(response.ct) THEN JSONParse(response.raw)
  ELSE IF isTextResponse(response.ct) THEN TextRead(response.raw)
  ELSE Val("blob", response.raw)

----------------------------------------------------------------------------
(* The entry store *)

Entry(h, body, createdAt, expiresAt) ==
  [t |-> "entry", hash |-> h, body |-> body, createdAt |-> createdAt, expiresAt |-> expiresAt]
NullEntry == [t |-> "null"]
StoreError == [t |-> "err"]
Done == [t |-> "ok"]

EmptyStore == [h \in {} |-> NullEntry]

(* IDBObjectStore.get: req.result || null *)
StoreGet(store, h) == IF h \in DOMAIN store THEN store[h] ELSE NullEntry

(* Variant: an entry is added only if its key is free (add instead of put). *)
StoreAdd(store, e) == IF e.hash \in DOMAIN store THEN store ELSE store @@ (e.hash :> e)

(* IDBObjectStore.put with keyPath 'hash' *)
StorePut(store, e) ==
  [h \in DOMAIN store \cup {e.hash} |-> IF h = e.hash THEN e ELSE store[h]]

(* Variant: the key range of the sweep leaves out its upper bound. *)
ExpiredBefore(store, nowMs) == {h \in DOMAIN store : store[h].expiresAt < nowMs}

(* Variant: the sweep walks the entries by their createdAt. *)
ExpiredByCreation(store, nowMs) == {h \in DOMAIN store : store[h].createdAt <= nowMs}

(* index('expiresAt').openCursor(IDBKeyRange.upperBound(nowMs)), deleting  *)
(* each entry the cursor visits                                            *)
Expired(store, nowMs) == {h \in DOMAIN store : store[h].expiresAt <= nowMs}

StoreCleanup(store, nowMs) ==
  [h \in DOMAIN store \ Expired(store, nowMs) |-> store[h]]

(* A store operation in flight: kind is "get", "set", "clear" (attach),    *)
(* "sweep" (attach), "clearCache"; by is the adapter whose IDBStore was    *)
(* called, r the request slot waiting for it (0: none).                    *)
Op(kind, by, r, h, e, nowMs) ==
  [kind |-> kind, by |-> by, r |-> r, hash |-> h, entry |-> e, nowMs |-> nowMs]

NoHash == [m |-> "", u |-> "", b |-> ""]

(* The store after the transaction of op has run *)
Apply(store, op) ==
  CASE op.kind = "get" -> store
    [] op.kind = "set" -> StorePut(store, op.entry)
    [] op.kind \in {"clear", "clearCache"} -> EmptyStore
    [] op.kind = "sweep" -> StoreCleanup(store, op.nowMs)

(* What the operation's promise resolves to *)
Result(store, op) == IF op.kind = "get" THEN StoreGet(store, op.hash) ELSE Done

(* The keys a transaction changes *)
Touched(store, op) ==
  CASE op.kind = "get" -> {}
    [] op.kind = "set" -> {op.hash}
    [] op.kind \in {"clear", "clearCache"} -> DOMAIN store
    [] op.kind = "sweep" -> Expired(store, op.nowMs)

----------------------------------------------------------------------------
(* History of a key: v counts its mutations; the other fields describe the *)
(* last one: live says it was a write (not a removal), at and expiresAt    *)
(* are the entry's createdAt and expiresAt, ttl, cfg and resp the resolved *)
(* ttlSeconds, the configuration and the response of the execution that    *)
(* wrote it, and by the adapter it went through.                           *)
NoVer ==
  [v |-> 0, live |-> FALSE, at |-> 0, expiresAt |-> 0, ttl |-> 0,
   cfg |-> Cfg("", "", "", Undef, Undef, FALSE), resp |-> NoResp, by |-> 0]

VerOf(v, h) == IF h \in DOMAIN v THEN v[h] ELSE NoVer

(* State of one request slot.  pc: "idle", "rq_ready" (request interceptor *)
(* at await this.readyPromise), "rq_get" (at await this.store.get),        *)
(* "rq_got" (store.get settled), "fetch", "rs_ready" (response interceptor *)
(* at await this.readyPromise), "rs_read" (at await readResponseSafely),   *)
(* "rs_set" (at await this.store.set), "done", "failed".                   *)
(* filterCalls and hashCalls count the calls of this.filter and of         *)
(* controls.getHash; ccDone and ccN say whether a clearCache() had         *)
(* completed when the execution started, and which one; entry is the entry *)
(* the response interceptor built, wroteV the version its store.set made,  *)
(* bodyUsed whether the body of the fetched response has been read, ccSet  *)
(* which clearCache() had completed when the response interceptor called   *)
(* store.set (0: none).                                                    *)

IdleReq ==
  [pc |-> "idle", a |-> 0, cfg |-> Cfg("", "", "", Undef, Undef, FALSE),
   hash |-> NoHash, got |-> NullEntry, resp |-> NoResp, result |-> NullVal,
   fetched |-> FALSE, wrote |-> FALSE, logged |-> 0, err |-> "",
   gets |-> 0, sets |-> 0, looked |-> FALSE, lookupAt |-> 0, seen |-> NoVer,
   pred |-> NoVer, hit |-> FALSE,
   filterCalls |-> 0, hashCalls |-> 0, ccDone |-> FALSE, ccN |-> 0,
   entry |-> NullEntry, wroteV |-> 0, bodyUsed |-> FALSE, ccSet |-> 0]

FreshAdapter ==
  [attached |-> FALSE, readyPromise |-> "undefined", dbPromise |-> "null",
   waiting |-> <<>>, maint |-> "none", cc |-> "idle", clears |-> 0, snap |-> EmptyStore,
   opens |-> 0, ccSnap |-> EmptyStore]

(* What execute() resolves to after a fetch: the decoded body of an ok     *)
(* response; a failed response rejects.                                    *)
HostResult(response) == IF response.ok THEN HostDecode(response) ELSE Thrown

(* The interceptor returned without a value: the pipeline goes on, and     *)
(* reads the body of the response, which raises if it was read before.     *)
Finished(q) ==
  LET res == IF q.bodyUsed THEN Thrown ELSE HostResult(q.resp)
  IN  [q EXCEPT !.pc = IF res = Thrown THEN "failed" ELSE "done", !.result = res,
                !.err = IF res = Thrown THEN "http" ELSE @]

(* The interceptor raised (why: "config", a malformed meta.cache; "ready", *)
(* the awaited readyPromise was rejected): execute() rejects.              *)
Raised(q, why) == [q EXCEPT !.pc = "failed", !.result = Thrown, !.err = why]

(* S is the bundle [req, ad, txq] an action is building.  Settle delivers  *)
(* the outcome of a store operation to whoever awaits its promise:         *)
(*  get        -> the request interceptor resumes after store.get;         *)
(*  set        -> the response interceptor resumes after store.set, logs a *)
(*                failure and returns;                                     *)
(*  sweep      -> readyPromise settles;                                    *)
(*  clear      -> nobody holds the promise (onAttach drops it);            *)
(*  clearCache -> the caller of clearCache().                              *)
Settle(S, op, res) ==
  LET ok == res # StoreError
  IN CASE op.kind = "get" ->
            [S EXCEPT !.req[op.r].pc = "rq_got", !.req[op.r].got = res]
       [] op.kind = "set" ->
            [S EXCEPT !.req[op.r] =
               Finished([@ EXCEPT !.wrote = ok,
                                  !.logged = IF ok THEN @ ELSE @ + 1])]
       [] op.kind = "sweep" ->
            [S EXCEPT !.ad[op.by].maint = IF ok THEN "done" ELSE "failed",
                      !.ad[op.by].readyPromise = IF ok THEN "fulfilled" ELSE "rejected"]
       [] op.kind = "clear" ->
            [S EXCEPT !.ad[op.by].maint = IF ok THEN "done" ELSE "failed"]
       [] op.kind = "clearCache" ->
            [S EXCEPT !.ad[op.by].cc = IF ok THEN "done" ELSE "failed"]

RECURSIVE SettleAll(_, _, _)
SettleAll(S, ops, res) ==
  IF ops = <<>> THEN S
  ELSE SettleAll(Settle(S, Head(ops), res), Tail(ops), res)

(* Variant: every IDBStore opens a database of its own, whatever its name. *)
CallPrivate(S, op) ==
  LET a == op.by
      n == IF a = 1 THEN "n1" ELSE "n2"
  IN  IF ~supported THEN Settle(S, op, StoreError)
      ELSE CASE S.ad[a].dbPromise = "null" ->
                  [S EXCEPT !.ad[a].dbPromise = "pending",
                            !.ad[a].opens = @ + 1,
                            !.ad[a].waiting = Append(@, op)]
             [] S.ad[a].dbPromise = "pending" ->
                  [S EXCEPT !.ad[a].waiting = Append(@, op)]
             [] S.ad[a].dbPromise = "resolved" ->
                  [S EXCEPT !.txq[n] = Append(@, op)]
             [] S.ad[a].dbPromise = "rejected" ->
                  Settle(S, op, StoreError)

(* Variant: open() forgets a dbPromise that was rejected and starts         *)
(* indexedDB.open again on the next call.                                  *)
CallRetrying(S, op) ==
  LET a == op.by
      n == opts[a].cacheName
  IN  IF ~supported THEN Settle(S, op, StoreError)
      ELSE CASE S.ad[a].dbPromise \in {"null", "rejected"} ->
                  [S EXCEPT !.ad[a].dbPromise = "pending",
                            !.ad[a].opens = @ + 1,
                            !.ad[a].waiting = Append(@, op)]
             [] S.ad[a].dbPromise = "pending" ->
                  [S EXCEPT !.ad[a].waiting = Append(@, op)]
             [] S.ad[a].dbPromise = "resolved" ->
                  [S EXCEPT !.txq[n] = Append(@, op)]

(* Variant: open() does not return the dbPromise it already holds while    *)
(* that promise is pending, and starts indexedDB.open again.               *)
CallReopening(S, op) ==
  LET a == op.by
      n == opts[a].cacheName
  IN  IF ~supported THEN Settle(S, op, StoreError)
      ELSE CASE S.ad[a].dbPromise \in {"null", "pending"} ->
                  [S EXCEPT !.ad[a].dbPromise = "pending",
                            !.ad[a].opens = @ + 1,
                            !.ad[a].waiting = Append(@, op)]
             [] S.ad[a].dbPromise = "resolved" ->
                  [S EXCEPT !.txq[n] = Append(@, op)]
             [] S.ad[a].dbPromise = "rejected" ->
                  Settle(S, op, StoreError)

(* IDBStore.open and IDBStore.tx as seen by one store method called on     *)
(* adapter op.by: without indexedDB the call rejects; the first call       *)
(* starts indexedDB.open and every call made before it settles awaits the  *)
(* same dbPromise; once the database is open the call creates its          *)
(* transaction; a rejected dbPromise rejects every later call.             *)
Call(S, op) ==
  LET a == op.by
      n == opts[a].cacheName
  IN  IF ~supported THEN Settle(S, op, StoreError)
      ELSE CASE S.ad[a].dbPromise = "null" ->
                  [S EXCEPT !.ad[a].dbPromise = "pending",
                            !.ad[a].opens = @ + 1,
                            !.ad[a].waiting = Append(@, op)]
             [] S.ad[a].dbPromise = "pending" ->
                  [S EXCEPT !.ad[a].waiting = Append(@, op)]
             [] S.ad[a].dbPromise = "resolved" ->
                  [S EXCEPT !.txq[n] = Append(@, op)]
             [] S.ad[a].dbPromise = "rejected" ->
                  Settle(S, op, StoreError)

Bundle == [req |-> req, ad |-> ad, txq |-> txq]

(* History: the version of the key a get read, or a set made. *)
Observe(S, op, v) ==
  CASE op.kind = "get" -> [S EXCEPT !.req[op.r].seen = VerOf(v, op.hash)]
    [] op.kind = "set" -> [S EXCEPT !.req[op.r].wroteV = VerOf(v, op.hash).v + 1]
    [] OTHER -> S

(* History: the keys the transaction of op changes get a new version. *)
Bump(v, store, op) ==
  LET hs == Touched(store, op)
  IN  [h \in DOMAIN v \cup hs |->
        IF h \notin hs THEN v[h]
        ELSE IF op.kind = "set"
          THEN [v |-> VerOf(v, h).v + 1, live |-> TRUE, at |-> op.entry.createdAt,
                expiresAt |-> op.entry.expiresAt,
                ttl |-> resolveCacheMetaConfig(req[op.r].cfg.cache).ttlSeconds,
                cfg |-> req[op.r].cfg, resp |-> req[op.r].resp, by |-> op.by]
          ELSE [NoVer EXCEPT !.v = VerOf(v, h).v + 1]]

Commit(S) == req' = S.req /\ ad' = S.ad /\ txq' = S.txq

----------------------------------------------------------------------------
(* Actions *)

Tick ==
  /\ now < MaxTicks * TickMs
  /\ now' = now + TickMs
  /\ UNCHANGED <<env, ad, db, txq, ver, req, fetchCount, started>>

(* Variant: the clear option is ignored and onAttach always sweeps. *)
OnAttachSweepOnly(a) ==
  /\ a \in attachers
  /\ ~ad[a].attached
  /\ Commit(Call([Bundle EXCEPT !.ad[a].attached = TRUE, !.ad[a].maint = "pending",
                                !.ad[a].snap = ver[opts[a].cacheName],
                                !.ad[a].readyPromise = "pending"],
                 Op("sweep", a, 0, NoHash, NullEntry, now)))
  /\ UNCHANGED <<env, now, db, ver, fetchCount, started>>

(* Variant: onAttach clears the cache whatever the clear option says. *)
OnAttachClearAlways(a) ==
  /\ a \in attachers
  /\ ~ad[a].attached
  /\ Commit(Call([Bundle EXCEPT !.ad[a].attached = TRUE, !.ad[a].maint = "pending",
                                !.ad[a].snap = ver[opts[a].cacheName]],
                 Op("clear", a, 0, NoHash, NullEntry, 0)))
  /\ UNCHANGED <<env, now, db, ver, fetchCount, started>>

(* onAttach(factory) *)
OnAttach(a) ==
  /\ a \in attachers
  /\ ~ad[a].attached
  /\ LET S0 == [Bundle EXCEPT !.ad[a].attached = TRUE, !.ad[a].maint = "pending",
                               !.ad[a].snap = ver[opts[a].cacheName]]
     IN  IF opts[a].clear
         THEN Commit(Call(S0, Op("clear", a, 0, NoHash, NullEntry, 0)))
         ELSE Commit(Call([S0 EXCEPT !.ad[a].readyPromise = "pending"],
                          Op("sweep", a, 0, NoHash, NullEntry, now)))
  /\ UNCHANGED <<env, now, db, ver, fetchCount, started>>

(* Variant: clearCache() resolves without calling the store. *)
ClearCacheIdle(a) ==
  /\ a \in clearers
  /\ ad[a].cc # "pending"
  /\ ad[a].clears < MaxClears
  /\ Commit([Bundle EXCEPT !.ad[a].cc = "done", !.ad[a].clears = @ + 1,
                           !.ad[a].ccSnap = ver[opts[a].cacheName]])
  /\ UNCHANGED <<env, now, db, ver, fetchCount, started>>

(* clearCache() *)
ClearCache(a) ==
  /\ a \in clearers
  /\ ad[a].cc # "pending"
  /\ ad[a].clears < MaxClears
  /\ Commit(Call([Bundle EXCEPT !.ad[a].cc = "pending", !.ad[a].clears = @ + 1,
                                !.ad[a].ccSnap = ver[opts[a].cacheName]],
                 Op("clearCache", a, 0, NoHash, NullEntry, 0)))
  /\ UNCHANGED <<env, now, db, ver, fetchCount, started>>

(* indexedDB.open succeeds: every call awaiting dbPromise creates its      *)
(* transaction, in the order the calls were made.                          *)
OpenDone(a) ==
  /\ ad[a].dbPromise = "pending"
  /\ ad' = [ad EXCEPT ![a].dbPromise = "resolved", ![a].waiting = <<>>]
  /\ txq' = [txq EXCEPT ![opts[a].cacheName] = @ \o ad[a].waiting]
  /\ UNCHANGED <<env, now, db, ver, req, fetchCount, started>>

(* indexedDB.open fails (onerror, onblocked, upgrade aborted) *)
OpenFail(a) ==
  /\ faulty
  /\ ad[a].dbPromise = "pending"
  /\ Commit(SettleAll([Bundle EXCEPT !.ad[a].dbPromise = "rejected", !.ad[a].waiting = <<>>],
                      ad[a].waiting, StoreError))
  /\ UNCHANGED <<env, now, db, ver, fetchCount, started>>

(* The oldest transaction on a database runs and its request succeeds. *)
IDBRun(n) ==
  /\ txq[n] # <<>>
  /\ LET op == Head(txq[n])
     IN  /\ db' = [db EXCEPT ![n] = Apply(@, op)]
         /\ ver' = [ver EXCEPT ![n] = Bump(@, db[n], op)]
         /\ Commit(Observe(Settle([Bundle EXCEPT !.txq[n] = Tail(@)], op, Result(db[n], op)),
                            op, ver[n]))
  /\ UNCHANGED <<env, now, fetchCount, started>>

(* The oldest transaction's request fails (req.onerror). *)
IDBFail(n) ==
  /\ faulty
  /\ txq[n] # <<>>
  /\ Commit(Settle([Bundle EXCEPT !.txq[n] = Tail(@)], Head(txq[n]), StoreError))
  /\ UNCHANGED <<env, now, db, ver, fetchCount, started>>

(* The fingerprint under which a configuration is cached *)
KeyOf(c) == getHash(c, resolveCacheMetaConfig(c.cache).hashBody)

Settled == {"idle", "done", "failed"}

(* request.execute() on the factory adapter a is attached to *)
Execute(r, a, c) ==
  /\ req[r].pc \in Settled
  /\ \A x \in Reqs : x < r => req[x].pc \notin Settled
  /\ a \in requesters
  /\ ad[a].attached
  /\ started < MaxExec
  /\ Cardinality({x \in Reqs : req[x].pc \notin Settled}) < conc
  /\ started' = started + 1
  /\ req' = [req EXCEPT ![r] =
       [IdleReq EXCEPT !.pc = "rq_ready", !.a = a, !.cfg = c,
                       !.pred = VerOf(ver[opts[a].cacheName], KeyOf(c)),
                       !.ccDone = (ad[a].cc = "done"), !.ccN = ad[a].clears]]
  /\ UNCHANGED <<env, now, ad, db, txq, ver, fetchCount>>

(* Variant: the request interceptor without its gate on ttlSeconds. *)
RqInterceptUngated(r) ==
  LET q == req[r]
      a == q.a
      m == resolveCacheMetaConfig(q.cfg.cache)
      asked == IF ~isExplicitCache(q.cfg) /\ opts[a].filter # "none" THEN 1 ELSE 0
      S == [Bundle EXCEPT !.req[r].filterCalls = @ + asked]
  IN  IF ad[a].readyPromise = "rejected"
        THEN [Bundle EXCEPT !.req[r] = Raised(q, "ready")]
      ELSE IF m.err \/ resolveCacheMetaConfig(q.cfg.api).err
        THEN [Bundle EXCEPT !.req[r] = Raised(q, "config")]
      ELSE IF ~isExplicitCache(q.cfg) /\ filterRejects(opts[a].filter, q.cfg)
        THEN [S EXCEPT !.req[r].pc = "fetch"]
      ELSE IF ~opts[a].hashOk
        THEN [S EXCEPT !.req[r].pc = "fetch", !.req[r].hashCalls = @ + 1]
      ELSE LET h == getHash(q.cfg, m.hashBody)
           IN  Call([S EXCEPT !.req[r].pc = "rq_get", !.req[r].hash = h,
                              !.req[r].hashCalls = @ + 1,
                              !.req[r].gets = @ + 1],
                    Op("get", a, r, h, NullEntry, 0))

(* Variant: the request interceptor calls controls.getHash outside any     *)
(* try block, so that what getHash raises rejects the execution.           *)
RqInterceptHashUncaught(r) ==
  LET q == req[r]
      a == q.a
      m == resolveCacheMetaConfig(q.cfg.cache)
      asked == IF ~isExplicitCache(q.cfg) /\ opts[a].filter # "none" THEN 1 ELSE 0
      S == [Bundle EXCEPT !.req[r].filterCalls = @ + asked]
  IN  IF ad[a].readyPromise = "rejected"
        THEN [Bundle EXCEPT !.req[r] = Raised(q, "ready")]
      ELSE IF m.err
        THEN [Bundle EXCEPT !.req[r] = Raised(q, "config")]
      ELSE IF m.ttlSeconds = 0
        THEN [Bundle EXCEPT !.req[r].pc = "fetch"]
      ELSE IF resolveCacheMetaConfig(q.cfg.api).err
        THEN [Bundle EXCEPT !.req[r] = Raised(q, "config")]
      ELSE IF ~isExplicitCache(q.cfg) /\ filterRejects(opts[a].filter, q.cfg)
        THEN [S EXCEPT !.req[r].pc = "fetch"]
      ELSE IF ~opts[a].hashOk
        THEN [S EXCEPT !.req[r] = Raised([q EXCEPT !.hashCalls = @ + 1], "hash")]
      ELSE LET h == getHash(q.cfg, m.hashBody)
           IN  Call([S EXCEPT !.req[r].pc = "rq_get", !.req[r].hash = h,
                              !.req[r].hashCalls = @ + 1,
                              !.req[r].gets = @ + 1],
                    Op("get", a, r, h, NullEntry, 0))

(* The request interceptor, from await this.readyPromise to its return or  *)
(* its await this.store.get(hash).                                         *)
RqIntercept(r) ==
  LET q == req[r]
      a == q.a
      m == resolveCacheMetaConfig(q.cfg.cache)
      asked == IF ~isExplicitCache(q.cfg) /\ opts[a].filter # "none" THEN 1 ELSE 0
      S == [Bundle EXCEPT !.req[r].filterCalls = @ + asked]
  IN  IF ad[a].readyPromise = "rejected"
        THEN [Bundle EXCEPT !.req[r] = Raised(q, "ready")]
      ELSE IF m.err
        THEN [Bundle EXCEPT !.req[r] = Raised(q, "config")]
      ELSE IF m.ttlSeconds = 0
        THEN [Bundle EXCEPT !.req[r].pc = "fetch"]
      ELSE IF resolveCacheMetaConfig(q.cfg.api).err
        THEN [Bundle EXCEPT !.req[r] = Raised(q, "config")]
      ELSE IF ~isExplicitCache(q.cfg) /\ filterRejects(opts[a].filter, q.cfg)
        THEN [S EXCEPT !.req[r].pc = "fetch"]
      ELSE IF ~opts[a].hashOk
        THEN [S EXCEPT !.req[r].pc = "fetch", !.req[r].hashCalls = @ + 1]
      ELSE LET h == getHash(q.cfg, m.hashBody)
           IN  Call([S EXCEPT !.req[r].pc = "rq_get", !.req[r].hash = h,
                              !.req[r].hashCalls = @ + 1,
                              !.req[r].gets = @ + 1],
                    Op("get", a, r, h, NullEntry, 0))

(* Variant: the interceptor goes on only behind a readiness gate that was  *)
(* fulfilled; an adapter that has no gate, or a rejected one, keeps it     *)
(* waiting.                                                                *)
RqAfterReadyFulfilledOnly(r) ==
  /\ req[r].pc = "rq_ready"
  /\ ad[req[r].a].readyPromise = "fulfilled"
  /\ Commit(RqIntercept(r))
  /\ UNCHANGED <<env, now, db, ver, fetchCount, started>>

RqAfterReady(r) ==
  /\ req[r].pc = "rq_ready"
  /\ ad[req[r].a].readyPromise # "pending"
  /\ Commit(RqIntercept(r))
  /\ UNCHANGED <<env, now, db, ver, fetchCount, started>>

(* Variants of the hit rule: the comparison reversed; the comparison made  *)
(* inclusive.                                                              *)
IsHitReversed(entry, nowMs) == entry.t = "entry" /\ entry.expiresAt < nowMs

IsHitInclusive(entry, nowMs) == entry.t = "entry" /\ entry.expiresAt >= nowMs

(* The hit rule of the request interceptor *)
IsHit(entry, nowMs) == entry.t = "entry" /\ entry.expiresAt > nowMs

(* Variant: a failed store.get is not caught and rejects the execution. *)
RqAfterGetUncaught(r) ==
  /\ req[r].pc = "rq_got"
  /\ LET q == req[r]
         e == q.got
     IN  req' = [req EXCEPT ![r] =
           IF e = StoreError
             THEN Raised(q, "store")
           ELSE IF IsHit(e, now)
             THEN [q EXCEPT !.pc = "done", !.result = e.body, !.hit = TRUE,
                            !.looked = TRUE, !.lookupAt = now]
           ELSE [q EXCEPT !.pc = "fetch", !.looked = TRUE, !.lookupAt = now]]
  /\ UNCHANGED <<env, now, ad, db, txq, ver, fetchCount, started>>

(* Variant: the lifetime of an entry is computed at lookup, from the TTL   *)
(* of the request that reads it.                                           *)
RqAfterGetReaderTtl(r) ==
  /\ req[r].pc = "rq_got"
  /\ LET q == req[r]
         e == q.got
         ttl == resolveCacheMetaConfig(q.cfg.cache).ttlSeconds
     IN  req' = [req EXCEPT ![r] =
           IF e = StoreError
             THEN [q EXCEPT !.pc = "fetch", !.logged = @ + 1]
           ELSE IF e.t = "entry" /\ e.createdAt + ttl * MsPerSecond > now
             THEN [q EXCEPT !.pc = "done", !.result = e.body, !.hit = TRUE,
                            !.looked = TRUE, !.lookupAt = now]
           ELSE [q EXCEPT !.pc = "fetch", !.looked = TRUE, !.lookupAt = now]]
  /\ UNCHANGED <<env, now, ad, db, txq, ver, fetchCount, started>>

(* Variant: the request interceptor deletes the expired entry it finds. *)
RqAfterGetEvicting(r) ==
  /\ req[r].pc = "rq_got"
  /\ LET q == req[r]
         e == q.got
         n == opts[q.a].cacheName
         stale == e # StoreError /\ e.t = "entry" /\ ~IsHit(e, now) /\ q.hash \in DOMAIN db[n]
     IN  /\ req' = [req EXCEPT ![r] =
               IF e = StoreError
                 THEN [q EXCEPT !.pc = "fetch", !.logged = @ + 1]
               ELSE IF IsHit(e, now)
                 THEN [q EXCEPT !.pc = "done", !.result = e.body, !.hit = TRUE,
                                !.looked = TRUE, !.lookupAt = now]
               ELSE [q EXCEPT !.pc = "fetch", !.looked = TRUE, !.lookupAt = now]]
         /\ db' = IF stale THEN [db EXCEPT ![n] = [h \in DOMAIN @ \ {q.hash} |-> @[h]]] ELSE db
         /\ ver' = IF stale
                   THEN [ver EXCEPT ![n][q.hash] = [NoVer EXCEPT !.v = ver[n][q.hash].v + 1]]
                   ELSE ver
  /\ UNCHANGED <<env, now, ad, txq, fetchCount, started>>

(* The request interceptor after store.get settled *)
RqAfterGet(r) ==
  /\ req[r].pc = "rq_got"
  /\ LET q == req[r]
         e == q.got
     IN  req' = [req EXCEPT ![r] =
           IF e = StoreError
             THEN [q EXCEPT !.pc = "fetch", !.logged = @ + 1]
           ELSE IF IsHit(e, now)
             THEN [q EXCEPT !.pc = "done", !.result = e.body, !.hit = TRUE,
                            !.looked = TRUE, !.lookupAt = now]
           ELSE [q EXCEPT !.pc = "fetch", !.looked = TRUE, !.lookupAt = now]]
  /\ UNCHANGED <<env, now, ad, db, txq, ver, fetchCount, started>>

(* The underlying fetch answers. *)
Fetch(r, response) ==
  /\ req[r].pc = "fetch"
  /\ response \in resps
  /\ fetchCount' = fetchCount + 1
  /\ req' = [req EXCEPT ![r].pc = "rs_ready", ![r].resp = response, ![r].fetched = TRUE]
  /\ UNCHANGED <<env, now, ad, db, txq, ver, started>>

(* Variant: a cancelled request still hands the response interceptors the  *)
(* response that was being received.                                       *)
AbortDelivering(r) ==
  /\ req[r].pc = "fetch"
  /\ fetchCount' = fetchCount + 1
  /\ \E response \in resps :
       req' = [req EXCEPT ![r].pc = "rs_ready", ![r].resp = response,
                          ![r].fetched = TRUE, ![r].err = "abort"]
  /\ UNCHANGED <<env, now, ad, db, txq, ver, started>>

(* The underlying fetch is cancelled or fails in transport: no response    *)
(* interceptor runs.                                                       *)
Abort(r) ==
  /\ req[r].pc = "fetch"
  /\ fetchCount' = fetchCount + 1
  /\ req' = [req EXCEPT ![r] = Raised([@ EXCEPT !.fetched = TRUE], "abort")]
  /\ UNCHANGED <<env, now, ad, db, txq, ver, started>>

(* Variant: the response interceptor does not look at response.ok. *)
RsAfterReadyAnyStatus(r) ==
  /\ req[r].pc = "rs_ready"
  /\ ad[req[r].a].readyPromise # "pending"
  /\ LET q == req[r]
         a == q.a
         m == resolveCacheMetaConfig(q.cfg.cache)
     IN  req' = [req EXCEPT ![r] =
           IF ad[a].readyPromise = "rejected" THEN Raised(q, "ready")
           ELSE IF m.err THEN Raised(q, "config")
           ELSE IF m.ttlSeconds = 0 THEN Finished(q)
           ELSE IF resolveCacheMetaConfig(q.cfg.api).err THEN Raised(q, "config")
           ELSE IF ~isExplicitCache(q.cfg) /\ filterRejects(opts[a].filter, q.cfg)
             THEN Finished(q)
           ELSE [q EXCEPT !.pc = "rs_read"]]
  /\ UNCHANGED <<env, now, ad, db, txq, ver, fetchCount, started>>

(* The response interceptor, from await this.readyPromise to its return or *)
(* its await this.readResponseSafely(response, config).                    *)
RsAfterReady(r) ==
  /\ req[r].pc = "rs_ready"
  /\ ad[req[r].a].readyPromise # "pending"
  /\ LET q == req[r]
         a == q.a
         m == resolveCacheMetaConfig(q.cfg.cache)
         asked == IF ~isExplicitCache(q.cfg) /\ opts[a].filter # "none" THEN 1 ELSE 0
         f == [q EXCEPT !.filterCalls = @ + asked]
     IN  req' = [req EXCEPT ![r] =
           IF ad[a].readyPromise = "rejected" THEN Raised(q, "ready")
           ELSE IF m.err THEN Raised(q, "config")
           ELSE IF m.ttlSeconds = 0 THEN Finished(q)
           ELSE IF resolveCacheMetaConfig(q.cfg.api).err THEN Raised(q, "config")
           ELSE IF ~isExplicitCache(q.cfg) /\ filterRejects(opts[a].filter, q.cfg)
             THEN Finished(f)
           ELSE IF ~q.resp.ok THEN Finished(f)
           ELSE [f EXCEPT !.pc = "rs_read"]]
  /\ UNCHANGED <<env, now, ad, db, txq, ver, fetchCount, started>>

(* Variant: the response interceptor leaves the write to a request of the  *)
(* same fingerprint whose store.set is already in flight.                  *)
RsAfterReadDeduplicating(r) ==
  /\ req[r].pc = "rs_read"
  /\ LET q == [req[r] EXCEPT !.bodyUsed = readResponseSafelyLeaves(req[r].resp, @)]
         a == q.a
         m == resolveCacheMetaConfig(q.cfg.cache)
         body == readResponseSafely(q.resp)
         h == getHash(q.cfg, m.hashBody)
         entry == Entry(h, body, now, now + m.ttlSeconds * MsPerSecond)
     IN  IF body = NullVal
           THEN Commit([Bundle EXCEPT !.req[r] = Finished(q)])
         ELSE IF ~opts[a].hashOk
           THEN Commit([Bundle EXCEPT !.req[r] = Finished([q EXCEPT !.hashCalls = @ + 1])])
         ELSE IF \E x \in Reqs \ {r} : req[x].pc = "rs_set" /\ req[x].hash = h
           THEN Commit([Bundle EXCEPT !.req[r] = Finished([q EXCEPT !.hashCalls = @ + 1])])
           ELSE Commit(Call([Bundle EXCEPT !.req[r].pc = "rs_set", !.req[r].hash = h,
                                           !.req[r].bodyUsed = q.bodyUsed,
                                           !.req[r].hashCalls = @ + 1,
                                           !.req[r].sets = @ + 1,
                                           !.req[r].entry = entry,
                                           !.req[r].ccSet = IF ad[a].cc = "done"
                                                            THEN ad[a].clears ELSE 0],
                            Op("set", a, r, h, entry, 0)))
  /\ UNCHANGED <<env, now, db, ver, fetchCount, started>>

(* Variant: clearCache() is a barrier; the response interceptor drops the   *)
(* write of an execution that started before the last clearCache() call.   *)
RsAfterReadFenced(r) ==
  /\ req[r].pc = "rs_read"
  /\ LET q == [req[r] EXCEPT !.bodyUsed = readResponseSafelyLeaves(req[r].resp, @)]
         a == q.a
         m == resolveCacheMetaConfig(q.cfg.cache)
         body == readResponseSafely(q.resp)
         h == getHash(q.cfg, m.hashBody)
         entry == Entry(h, body, now, now + m.ttlSeconds * MsPerSecond)
     IN  IF body = NullVal
           THEN Commit([Bundle EXCEPT !.req[r] = Finished(q)])
         ELSE IF ~opts[a].hashOk
           THEN Commit([Bundle EXCEPT !.req[r] = Finished([q EXCEPT !.hashCalls = @ + 1])])
         ELSE IF q.ccN < ad[a].clears
           THEN Commit([Bundle EXCEPT !.req[r] = Finished([q EXCEPT !.hashCalls = @ + 1])])
           ELSE Commit(Call([Bundle EXCEPT !.req[r].pc = "rs_set", !.req[r].hash = h,
                                           !.req[r].bodyUsed = q.bodyUsed,
                                           !.req[r].hashCalls = @ + 1,
                                           !.req[r].sets = @ + 1,
                                           !.req[r].entry = entry,
                                           !.req[r].ccSet = IF ad[a].cc = "done"
                                                            THEN ad[a].clears ELSE 0],
                            Op("set", a, r, h, entry, 0)))
  /\ UNCHANGED <<env, now, db, ver, fetchCount, started>>

(* The response interceptor after readResponseSafely, to its return or its *)
(* await this.store.set(entry).                                            *)
RsAfterRead(r) ==
  /\ req[r].pc = "rs_read"
  /\ LET q == [req[r] EXCEPT !.bodyUsed = readResponseSafelyLeaves(req[r].resp, @)]
         a == q.a
         m == resolveCacheMetaConfig(q.cfg.cache)
         body == readResponseSafely(q.resp)
         h == getHash(q.cfg, m.hashBody)
         entry == Entry(h, body, now, now + m.ttlSeconds * MsPerSecond)
     IN  IF body = NullVal
           THEN Commit([Bundle EXCEPT !.req[r] = Finished(q)])
         ELSE IF ~opts[a].hashOk
           THEN Commit([Bundle EXCEPT !.req[r] = Finished([q EXCEPT !.hashCalls = @ + 1])])
           ELSE Commit(Call([Bundle EXCEPT !.req[r].pc = "rs_set", !.req[r].hash = h,
                                           !.req[r].bodyUsed = q.bodyUsed,
                                           !.req[r].hashCalls = @ + 1,
                                           !.req[r].sets = @ + 1,
                                           !.req[r].entry = entry,
                                           !.req[r].ccSet = IF ad[a].cc = "done"
                                                            THEN ad[a].clears ELSE 0],
                            Op("set", a, r, h, entry, 0)))
  /\ UNCHANGED <<env, now, db, ver, fetchCount, started>>

Next ==
  \/ Tick
  \/ \E a \in Adapters : OnAttach(a) \/ ClearCache(a) \/ OpenDone(a) \/ OpenFail(a)
  \/ \E n \in Names : IDBRun(n) \/ IDBFail(n)
  \/ \E r \in Reqs :
       \/ \E a \in Adapters, c \in cfgs : Execute(r, a, c)
       \/ RqAfterReady(r)
       \/ RqAfterGet(r)
       \/ \E response \in resps : Fetch(r, response)
       \/ Abort(r)
       \/ RsAfterReady(r)
       \/ RsAfterRead(r)

----------------------------------------------------------------------------
(* Scenarios: the options the adapters are constructed with, the requests  *)
(* issued and the responses the network gives.                             *)

Opt(name, filter, clear, hashOk) ==
  [cacheName |-> name, filter |-> filter, clear |-> clear, hashOk |-> hashOk]

Scn(o1, o2, att, cs, rs, cn, cl, sup, flt) ==
  [opts |-> (1 :> o1) @@ (2 :> o2), attachers |-> att, cfgs |-> cs, resps |-> rs,
   conc |-> cn, clearers |-> cl, supported |-> sup, faulty |-> flt,
   requesters |-> att]

JsonA == Resp(TRUE, "application/json", "{\"a\":1}")
JsonB == Resp(TRUE, "application/json", "{\"b\":1}")
JsonNull == Resp(TRUE, "application/json", "null")
TextH == Resp(TRUE, "text/plain", "hello")
Binary == Resp(TRUE, "application/octet-stream", "\\1\\2\\3")
NoType == Resp(TRUE, "", "hello")
Failure == Resp(FALSE, "application/json", "{\"a\":1}")
BadJson == Resp(TRUE, "application/json", "{oops")
FailureText == Resp(FALSE, "text/plain", "oops")

GetX(cache) == Cfg("GET", "/x", "", cache, Undef, FALSE)
PostE(body, cache) == Cfg("POST", "/echo", body, cache, Undef, FALSE)

(* requests of an API whose apiMeta.cache is 1 *)
ApiGetX == Cfg("GET", "/x", "", Num(1), Num(1), FALSE)
ApiPostY == Cfg("POST", "/y", "", Num(1), Num(1), FALSE)
ApiPostZ == Cfg("POST", "/z", "", Num(1), Num(1), TRUE)
ApiOverride == Cfg("POST", "/override", "", Num(2), Num(1), FALSE)
PlainPost == Cfg("POST", "/p", "", Num(1), Undef, FALSE)

Plain == Opt("n1", "none", FALSE, TRUE)
Filtering(f) == Opt("n1", f, FALSE, TRUE)
Clearing(n) == Opt(n, "none", TRUE, TRUE)

(* one adapter, requests one after the other, a reliable engine *)
Seq1(o, cs, rs) == Scn(o, Plain, {1}, cs, rs, 1, {}, TRUE, FALSE)

TtlScenarios ==
  { Seq1(Plain, {GetX(Num(1)), GetX(ObjTtl(2))}, {JsonA, JsonB}) }

FilterScenarios ==
  { Seq1(Filtering(f), {ApiGetX, ApiPostY, ApiPostZ, ApiOverride, PlainPost}, {JsonA})
      : f \in {"getOnly", "never"} }

BodyScenarios ==
  { Seq1(Plain, {PostE(b, m) : b \in {"id=1", "id=2"}}, {JsonA, JsonB})
      : m \in {Obj(1, TRUE), Num(1), ObjTtl(1), Obj(1, FALSE)} }
    \cup { Seq1(Plain, {PostE("id=1", Obj(1, TRUE)), PostE("id=1", Num(1))}, {JsonA, JsonB}) }

MimeScenarios ==
  { Seq1(Plain, {GetX(Num(2))}, {JsonA, TextH, Binary, NoType, JsonNull, Failure}) }

(* a second adapter attached with clear: true, on the same cache name *)
ClearScenarios ==
  { Scn(Plain, Clearing("n1"), {1, 2}, {GetX(Num(2))}, {JsonA}, 1, {}, TRUE, FALSE),
    Seq1(Clearing("n1"), {GetX(Num(2))}, {JsonA}) }

(* an environment without indexedDB, and an engine that may fail *)
FaultScenarios ==
  { Scn(o, Plain, {1}, {GetX(Num(2))}, {JsonA}, 1, {1}, sup, TRUE)
      : o \in {Plain, Clearing("n1")}, sup \in BOOLEAN }

(* requests whose meta.cache, or whose API-level cache, is ill-formed *)
MalformedScenarios ==
  { Seq1(Plain, {GetX(Str), GetX(NullMeta), GetX(EmptyObj), GetX(Num(1)),
                 Cfg("GET", "/x", "", Num(1), Str, FALSE)}, {JsonA}) }

(* every sign of ttlSeconds the nonzero gate lets through *)
EntryScenarios ==
  { Seq1(Plain, {GetX(Num(1)), GetX(Num(-1)), GetX(ObjTtl(2))}, {JsonA}) }

(* failed and absent responses, for explicit and for filtered requests *)
FailScenarios ==
  { Seq1(Filtering(f), {ApiPostZ, ApiPostY}, {JsonA, Failure, FailureText, NoResp})
      : f \in {"none", "never"} }

(* requests whose resolved ttlSeconds is 0, under a filter that rejects    *)
(* everything, next to one that is cached                                  *)
ZeroScenarios ==
  { Seq1(Filtering("never"),
         {GetX(Num(0)), GetX(Undef), GetX(ObjHb(TRUE)),
          Cfg("POST", "/z", "", Num(0), Num(1), TRUE),
          Cfg("GET", "/x", "", Num(0), Str, FALSE),
          ApiPostZ}, {JsonA}) }

(* store calls made while indexedDB.open is in flight: the clear of        *)
(* onAttach and the lookups of two overlapping requests; and the same      *)
(* adapter where indexedDB is missing or its open may fail                 *)
OpenScenarios ==
  { Scn(Clearing("n1"), Plain, {1}, {GetX(Num(2))}, {JsonA}, 2, {}, TRUE, FALSE) }
    \cup { Scn(Clearing("n1"), Plain, {1}, {GetX(Num(2))}, {JsonA}, 1, {}, sup, TRUE)
             : sup \in BOOLEAN }

(* a second adapter attached without clear, at any time, to a cache that   *)
(* holds entries of different lifetimes: its onAttach sweeps; the requests *)
(* all go through the first adapter                                        *)
SweepScenarios ==
  { [Scn(Plain, Plain, {1, 2}, {GetX(Num(1)), PostE("id=1", Num(2))}, {JsonA},
         1, {}, TRUE, FALSE) EXCEPT !.requesters = {1}] }

(* a client that calls clearCache() at any time, over a reliable engine *)
ClearCacheScenarios ==
  { Scn(Plain, Plain, {1}, {GetX(Num(2))}, {JsonA}, 1, {1}, TRUE, FALSE) }

(* two requests of one fingerprint in flight together, answered by         *)
(* different responses                                                     *)
DupScenarios ==
  { Scn(Plain, Plain, {1}, {GetX(Num(2))}, {JsonA, JsonB}, 2, {}, TRUE, FALSE) }

(* a factory whose controls.getHash raises, for requests with and without  *)
(* hashBody, next to the same requests on a factory where it works         *)
HashScenarios ==
  { Seq1(Opt("n1", "none", FALSE, ok), {GetX(Num(2)), PostE("id=1", Obj(1, TRUE))},
         {JsonA, TextH}) : ok \in BOOLEAN }

(* every conforming shape of meta.cache: absent, a number, an object with  *)
(* both fields, with ttlSeconds only, with hashBody only                   *)
NormScenarios ==
  { Seq1(Plain, {PostE("id=1", m) : m \in ms}, {JsonA})
      : ms \in { {Undef, Num(2), ObjHb(TRUE), Obj(1, TRUE)},
                 {Num(0), ObjTtl(2), ObjHb(FALSE), Obj(2, FALSE)} } }

(* every path of the body extraction: a JSON body, a text body, a JSON     *)
(* body that does not parse, a type that is skipped, a failed response     *)
ReadScenarios ==
  { Seq1(Plain, {GetX(Num(2))}, {JsonA, TextH, BadJson, Binary, Failure}) }

(* two adapters that both serve requests, the second constructed with     *)
(* clear: true and with the cache name of the first or with another one    *)
NameScenarios ==
  { Scn(Plain, Clearing(n), {1, 2}, {GetX(Num(2))}, {JsonA}, 1, {}, TRUE, FALSE)
      : n \in Names }

(* two adapters on one cache name that both serve requests, the second    *)
(* attached at any time, with or without clear                             *)
AttachScenarios ==
  { Scn(Plain, o, {1, 2}, {GetX(Num(2))}, {JsonA}, 1, {}, TRUE, FALSE)
      : o \in {Plain, Clearing("n1")} }

(* every path of the request interceptor: a request without meta.cache,   *)
(* and a cached one that is missed, served, and found expired              *)
LookupScenarios ==
  { Seq1(Plain, {GetX(Num(1)), GetX(Undef)}, {JsonA}) }

(* every way an interceptor can wait: two overlapping requests behind the  *)
(* readiness gate of a sweep; an adapter whose onAttach clears, with a     *)
(* client that calls clearCache(); an adapter whose onAttach sweeps where  *)
(* indexedDB is missing or the engine may fail, with a request whose       *)
(* meta.cache is ill-formed                                                *)
LiveScenarios ==
  { Scn(Plain, Plain, {1}, {GetX(Num(2))}, {JsonA}, 2, {}, TRUE, FALSE),
    Scn(Clearing("n1"), Plain, {1}, {GetX(Num(2))}, {JsonA}, 1, {1}, TRUE, FALSE) }
    \cup { Scn(Plain, Plain, {1}, {GetX(Num(2)), GetX(Str)}, {JsonA}, 1, {}, sup, TRUE)
             : sup \in BOOLEAN }

(* part of every specification: one adapter over an engine that may fail, *)
(* with a client that also calls clearCache()                             *)
Common == { Scn(Plain, Plain, {1}, {GetX(Num(2))}, {JsonA}, 1, {1}, TRUE, TRUE) }

Scenarios ==
  Common \cup TtlScenarios \cup FilterScenarios \cup BodyScenarios \cup MimeScenarios
    \cup ClearScenarios \cup FaultScenarios \cup MalformedScenarios \cup EntryScenarios
    \cup FailScenarios \cup ZeroScenarios \cup OpenScenarios
    \cup SweepScenarios \cup ClearCacheScenarios \cup DupScenarios
    \cup HashScenarios \cup NormScenarios \cup ReadScenarios \cup NameScenarios
    \cup AttachScenarios \cup LookupScenarios \cup LiveScenarios

InitOf(S) ==
  /\ now = 0
  /\ sc \in S
  /\ ad = [a \in Adapters |-> FreshAdapter]
  /\ db = [n \in Names |-> EmptyStore]
  /\ txq = [n \in Names |-> <<>>]
  /\ ver = [n \in Names |-> EmptyStore]
  /\ req = [r \in Reqs |-> IdleReq]
  /\ fetchCount = 0
  /\ started = 0

Init == InitOf(Scenarios)

Spec == Init /\ [][Next]_vars

SpecTtl == InitOf(Common \cup TtlScenarios) /\ [][Next]_vars
SpecFilter == InitOf(Common \cup FilterScenarios) /\ [][Next]_vars
SpecBody == InitOf(Common \cup BodyScenarios) /\ [][Next]_vars
SpecMime == InitOf(Common \cup MimeScenarios) /\ [][Next]_vars
SpecClear == InitOf(Common \cup ClearScenarios) /\ [][Next]_vars
SpecFault == InitOf(Common \cup FaultScenarios) /\ [][Next]_vars
SpecConfig == InitOf(Common \cup MalformedScenarios) /\ [][Next]_vars
SpecEntry == InitOf(Common \cup EntryScenarios) /\ [][Next]_vars
SpecFail == InitOf(Common \cup FailScenarios) /\ [][Next]_vars
SpecZero == InitOf(Common \cup ZeroScenarios) /\ [][Next]_vars
SpecOpen == InitOf(Common \cup OpenScenarios) /\ [][Next]_vars
SpecSweep == InitOf(Common \cup SweepScenarios) /\ [][Next]_vars
SpecClearCache == InitOf(Common \cup ClearCacheScenarios) /\ [][Next]_vars
SpecDup == InitOf(Common \cup DupScenarios) /\ [][Next]_vars
SpecHash == InitOf(Common \cup HashScenarios) /\ [][Next]_vars
SpecNorm == InitOf(Common \cup NormScenarios) /\ [][Next]_vars
SpecRead == InitOf(Common \cup ReadScenarios) /\ [][Next]_vars
SpecName == InitOf(Common \cup NameScenarios) /\ [][Next]_vars
SpecAttach == InitOf(Common \cup AttachScenarios) /\ [][Next]_vars
SpecLookup == InitOf(Common \cup LookupScenarios) /\ [][Next]_vars

(* Scheduling.  Every store operation that was started settles: an         *)
(* indexedDB.open in flight succeeds or fails, and the oldest transaction  *)
(* of a database runs or fails.  The continuation of an interceptor runs   *)
(* once the promise it awaits has settled (Resume: the continuations of    *)
(* one execution, of which at most one is enabled at a time).  Nothing is  *)
(* assumed of the client (attach, execute, clearCache), of the network or  *)
(* of the clock.                                                           *)
Resume(r) == RqAfterReady(r) \/ RqAfterGet(r) \/ RsAfterReady(r) \/ RsAfterRead(r)

Fairness ==
  /\ \A a \in Adapters : WF_vars(OpenDone(a) \/ OpenFail(a))
  /\ \A n \in Names : WF_vars(IDBRun(n) \/ IDBFail(n))
  /\ \A r \in Reqs : WF_vars(Resume(r))

SpecLive == InitOf(LiveScenarios) /\ [][Next]_vars /\ Fairness

----------------------------------------------------------------------------
(* Vocabulary of the properties *)

NameOf(a) == opts[a].cacheName

TtlOf(c) == resolveCacheMetaConfig(c.cache).ttlSeconds

WellFormed(c) ==
  ~resolveCacheMetaConfig(c.cache).err /\ ~resolveCacheMetaConfig(c.api).err

(* The execution in slot r has settled: execute() resolved or rejected. *)
Over(r) == req[r].pc \in {"done", "failed"}

(* Nothing of the storage engine failed under the execution in slot r, and *)
(* the fingerprint was available.                                          *)
Sound(r) ==
  /\ req[r].logged = 0
  /\ req[r].err \notin {"ready", "abort"}
  /\ opts[req[r].a].hashOk

(* What execute() returned for the execution that wrote version w *)
ResultOf(w) == HostResult(w.resp)

(* C1: cache hit idempotence.  When an execution starts after another one  *)
(* of the same fingerprint has completed and written its JSON/text         *)
(* response, carries ttlSeconds > 0 and looks the key up while that entry  *)
(* is untouched and its TTL is live, it performs no fetch and returns the  *)
(* body the first execution returned: one fetch in total for the two.      *)
C1_CacheHitIdempotence ==
  \A r \in Reqs :
    LET q == req[r]
    IN  ( /\ Over(r) /\ Sound(r)
          /\ opts[q.a].filter = "none"
          /\ WellFormed(q.cfg) /\ TtlOf(q.cfg) > 0
          /\ q.pred.live
          /\ TtlOf(q.pred.cfg) > 0
          /\ q.cfg = q.pred.cfg
          /\ q.looked => q.seen.v = q.pred.v /\ q.lookupAt < q.pred.expiresAt )
        => ( /\ q.looked
             /\ q.pc = "done"
             /\ ~q.fetched
             /\ q.result = ResultOf(q.pred) )

C1_Witness ==
  \E r \in Reqs :
    /\ Over(r) /\ req[r].pred.live /\ req[r].cfg = req[r].pred.cfg
    /\ req[r].looked /\ req[r].seen.v = req[r].pred.v
    /\ req[r].lookupAt < req[r].pred.expiresAt
    /\ req[r].hit /\ fetchCount = 1 /\ started = 2

(* C2: TTL expiry.  A lookup that found the entry written at time t with   *)
(* ttlSeconds = T, evaluated at time t', short-circuits with the stored    *)
(* body and sends nothing iff t' < t + T*1000; at t' >= t + T*1000, the    *)
(* instant of expiry included, the request falls through to the fetch.     *)
C2_TtlExpiry ==
  \A r \in Reqs :
    LET q == req[r]
        w == q.seen
    IN  (q.looked /\ w.live)
        => /\ q.hit <=> (q.lookupAt < w.at + w.ttl * 1000)
           /\ q.hit => (q.pc = "done" /\ ~q.fetched /\ q.result = q.got.body
                         /\ q.got.body = readResponseSafely(w.resp))
           /\ ~q.hit => (q.pc = "fetch" \/ q.fetched)

(* a lookup at the very instant of expiry, which misses *)
C2_Witness ==
  \E r \in Reqs :
    /\ req[r].looked /\ req[r].seen.live /\ req[r].seen.ttl > 0
    /\ req[r].lookupAt = req[r].seen.at + req[r].seen.ttl * 1000
    /\ ~req[r].hit /\ req[r].fetched

ApiTtlOf(c) == resolveCacheMetaConfig(c.api).ttlSeconds

HashBodyOf(c) == resolveCacheMetaConfig(c.cache).hashBody

(* The response of the execution in slot r is one the adapter can store. *)
Storable(response) == response.ok /\ readResponseSafely(response) # NullVal

(* The execution in slot r ran to its end on a sound engine, with a        *)
(* well-formed configuration of nonzero TTL, under a filter that rejects   *)
(* its configuration.                                                      *)
Vetoed(r) ==
  /\ Over(r) /\ Sound(r)
  /\ WellFormed(req[r].cfg) /\ TtlOf(req[r].cfg) # 0
  /\ filterRejects(opts[req[r].a].filter, req[r].cfg)

(* The execution in slot r went through the store: it looked its key up,   *)
(* and wrote the response it fetched if that was storable.                 *)
Cached(r) ==
  /\ req[r].gets = 1
  /\ (req[r].fetched /\ Storable(req[r].resp)) => (req[r].sets = 1 /\ req[r].wrote)

(* The execution in slot r never touched the store and fetched. *)
Bypassed(r) == req[r].gets = 0 /\ req[r].sets = 0 /\ req[r].fetched

(* C3: explicit override precedence.  With an API-level TTL and a filter   *)
(* that rejects the request, a request whose endpoint definition carries a *)
(* cache key (nonzero TTL) is still looked up and cached; one whose        *)
(* endpoint has no cache key and that only inherits the API-level TTL is   *)
(* neither read from nor written to the store and always fetches.          *)
C3_ExplicitOverridePrecedence ==
  \A r \in Reqs :
    (Vetoed(r) /\ ApiTtlOf(req[r].cfg) # 0)
    => /\ req[r].cfg.epHasCache => Cached(r)
       /\ (~req[r].cfg.epHasCache /\ req[r].cfg.cache = req[r].cfg.api) => Bypassed(r)

(* an endpoint-explicit request served from the cache under a rejecting filter *)
C3_Witness ==
  \E r \in Reqs :
    /\ Vetoed(r) /\ ApiTtlOf(req[r].cfg) # 0 /\ req[r].cfg.epHasCache
    /\ req[r].hit /\ fetchCount = 1

(* C4: request-level override.  A request whose own TTL differs from the   *)
(* API-level TTL is explicit: a filter that rejects it prevents neither    *)
(* the lookup nor the write, and the second identical execution within the *)
(* TTL is served from the cache.                                           *)
C4_RequestLevelOverride ==
  \A r \in Reqs :
    LET q == req[r]
    IN  ( /\ Vetoed(r)
          /\ ~q.cfg.epHasCache
          /\ q.cfg.api.k # "undef"
          /\ TtlOf(q.cfg) # ApiTtlOf(q.cfg) )
        => /\ Cached(r)
           /\ ( /\ q.pred.live /\ q.pred.cfg = q.cfg
                /\ q.looked /\ q.seen.v = q.pred.v /\ q.lookupAt < q.pred.expiresAt )
              => (q.hit /\ ~q.fetched)

C4_Witness ==
  \E r \in Reqs :
    /\ Vetoed(r) /\ ~req[r].cfg.epHasCache /\ req[r].cfg.api.k # "undef"
    /\ TtlOf(req[r].cfg) # ApiTtlOf(req[r].cfg)
    /\ req[r].pred.live /\ req[r].pred.cfg = req[r].cfg
    /\ req[r].hit /\ fetchCount = 1

(* The explicit rule as C5 states it, and as amended: an absent API-level  *)
(* cache resolves to TTL 0 and is compared like any other TTL.             *)
ClaimedExplicit(c) ==
  c.epHasCache \/ (c.api.k # "undef" /\ ApiTtlOf(c) # TtlOf(c))

AmendedExplicit(c) == c.epHasCache \/ ApiTtlOf(c) # TtlOf(c)

(* C5 as stated: explicit iff the endpoint carries a cache key, or an      *)
(* API-level TTL exists and differs from the current TTL; in every other   *)
(* case, a request of nonzero TTL without any API-level cache included, a  *)
(* rejecting filter vetoes both lookup and write.                          *)
C5_Original ==
  \A r \in Reqs :
    Vetoed(r) => IF ClaimedExplicit(req[r].cfg) THEN Cached(r) ELSE Bypassed(r)

(* C5 amended: explicit iff the endpoint carries a cache key, or the       *)
(* current TTL differs from the API-level TTL, an absent API-level cache   *)
(* counting as TTL 0; so a request of nonzero TTL without any API-level    *)
(* cache is explicit and a rejecting filter does not veto it.  Only a      *)
(* request that is not explicit is vetoed, for lookup and for write.       *)
C5_ExplicitRule ==
  \A r \in Reqs :
    Vetoed(r) => IF AmendedExplicit(req[r].cfg) THEN Cached(r) ELSE Bypassed(r)

(* a request of nonzero TTL, no API-level cache, no endpoint cache key,    *)
(* rejected by the filter and nevertheless served from the cache           *)
C5_Witness ==
  \E r \in Reqs :
    /\ Vetoed(r) /\ req[r].cfg.api.k = "undef" /\ ~req[r].cfg.epHasCache
    /\ TtlOf(req[r].cfg) # 0
    /\ req[r].gets = 1 /\ req[r].hit /\ ~req[r].fetched

(* The fingerprint of a configuration: method, URL, and the body exactly   *)
(* when the resolved hashBody flag is true.                                *)
Fingerprint(c) ==
  [m |-> c.method, u |-> c.url, b |-> IF HashBodyOf(c) THEN c.body ELSE "-"]

(* Two configurations differ in their bodies and in nothing else. *)
OnlyBodyDiffers(c, d) ==
  /\ c.body # d.body
  /\ [c EXCEPT !.body = ""] = [d EXCEPT !.body = ""]

(* C6: hash sensitivity to body.  The fingerprint used as cache key        *)
(* includes the request body if and only if the resolved hashBody flag is  *)
(* true.  With hashBody true a request is never served the entry of a      *)
(* request with another body (two requests differing only in body make two *)
(* fetches); with hashBody false or absent, requests sharing method and    *)
(* URL collapse onto one entry whatever their bodies.                      *)
C6_HashSensitivityToBody ==
  \A r \in Reqs :
    LET q == req[r]
    IN  /\ (q.gets + q.sets > 0) => q.hash = Fingerprint(q.cfg)
        /\ (q.looked /\ q.seen.live /\ HashBodyOf(q.cfg))
           => (HashBodyOf(q.seen.cfg) /\ q.seen.cfg.body = q.cfg.body)
        /\ ( /\ Over(r) /\ Sound(r) /\ opts[q.a].filter = "none"
             /\ WellFormed(q.cfg) /\ TtlOf(q.cfg) > 0 /\ ~HashBodyOf(q.cfg)
             /\ q.pred.live /\ OnlyBodyDiffers(q.cfg, q.pred.cfg)
             /\ q.looked => q.seen.v = q.pred.v /\ q.lookupAt < q.pred.expiresAt )
           => (q.looked /\ q.hit /\ ~q.fetched)

(* two live entries for one method and URL, made by two fetches of         *)
(* requests that differ only in body, with hashBody true                   *)
C6_Witness ==
  \E r \in Reqs :
    LET q == req[r]
        n == NameOf(q.a)
    IN  /\ Over(r) /\ HashBodyOf(q.cfg) /\ q.looked /\ q.fetched /\ q.wrote
        /\ fetchCount = 2
        /\ \E h \in DOMAIN db[n] :
             /\ h # q.hash /\ q.hash \in DOMAIN db[n]
             /\ OnlyBodyDiffers(VerOf(ver[n], h).cfg, q.cfg)
             /\ q.lookupAt < db[n][h].expiresAt

(* C7: only JSON and textual bodies are cached.  Every stored entry comes  *)
(* from a successful response whose content type is JSON, stored as the    *)
(* parsed value, or text, stored as the string; a hit returns the stored   *)
(* value; a response of any other content type is never stored, so every   *)
(* execution of such a request fetches, and its result is the one the      *)
(* host pipeline decodes.                                                  *)
C7_ContentTypeGating ==
  /\ \A n \in Names : \A h \in DOMAIN db[n] :
       LET e == db[n][h]
           w == VerOf(ver[n], h)
       IN  /\ w.live /\ w.resp.ok
           /\ e.body # NullVal /\ e.body # Thrown
           /\ \/ isJSONResponse(w.resp.ct) /\ e.body = JSONParse(w.resp.raw)
              \/ isTextResponse(w.resp.ct) /\ e.body = TextRead(w.resp.raw)
  /\ \A r \in Reqs :
       LET q == req[r]
       IN  /\ q.hit => (q.result = q.got.body /\ q.result = HostResult(q.seen.resp))
           /\ ( /\ Over(r) /\ q.fetched
                /\ ~isJSONResponse(q.resp.ct) /\ ~isTextResponse(q.resp.ct) )
              => /\ q.sets = 0 /\ ~q.wrote
                 /\ q.resp.ok => (q.pc = "done" /\ q.result = HostResult(q.resp))

(* a binary response fetched a second time for the same request, returned  *)
(* as the host decodes it, and nothing stored                              *)
C7_Witness ==
  \E r \in Reqs :
    LET q == req[r]
    IN  /\ Over(r) /\ q.fetched /\ q.resp.ok /\ q.looked
        /\ ~isJSONResponse(q.resp.ct) /\ ~isTextResponse(q.resp.ct)
        /\ q.pc = "done" /\ q.sets = 0
        /\ fetchCount = 2 /\ started = 2
        /\ \A n \in Names : DOMAIN db[n] = {}

(* The history, when adapter a was attached, of the key h of its cache. *)
AtAttach(a, h) == VerOf(ad[a].snap, h)

(* C8: clear on attach.  When an adapter constructed with clear: true is   *)
(* attached to a cache name that already holds entries, and the clear does *)
(* not fail, every entry the cache held at attach is removed, and no       *)
(* lookup through that adapter sees one of them: the next request for a    *)
(* key that was cached and still within its TTL misses and fetches.        *)
C8_ClearOnAttach ==
  \A a \in Adapters :
    (opts[a].clear /\ ad[a].attached /\ ad[a].maint # "failed")
    => /\ ad[a].maint = "done"
          => \A h \in DOMAIN ad[a].snap :
               ad[a].snap[h].live => VerOf(ver[NameOf(a)], h).v > ad[a].snap[h].v
       /\ \A r \in Reqs :
            LET q == req[r]
            IN  (q.a = a /\ q.looked)
                => /\ q.seen.live => q.seen.v > AtAttach(a, q.hash).v
                   /\ (AtAttach(a, q.hash).live /\ q.seen.v <= AtAttach(a, q.hash).v + 1)
                      => (~q.hit /\ q.got = NullEntry /\ (q.pc = "fetch" \/ q.fetched \/ q.err = "abort"))

(* an entry live at attach and still within its TTL, missed by the first   *)
(* request made through the clearing adapter, which fetched again          *)
C8_Witness ==
  \E r \in Reqs :
    LET q == req[r]
        a == q.a
    IN  /\ Over(r) /\ q.looked /\ ~q.hit /\ q.fetched
        /\ opts[a].clear /\ ad[a].maint = "done"
        /\ AtAttach(a, q.hash).live
        /\ q.lookupAt < AtAttach(a, q.hash).expiresAt
        /\ fetchCount = 2

(* The execution in slot r has called store.get or store.set. *)
CalledStore(r) == req[r].gets + req[r].sets > 0

(* C9: attach-time readiness ordering.  Whichever maintenance action       *)
(* onAttach starts, the clear of the cache or the sweep of expired         *)
(* entries, it has completed before any interceptor of that adapter makes  *)
(* its first store read or write.                                          *)
C9_AttachReadinessOrdering ==
  \A r \in Reqs :
    CalledStore(r) => ad[req[r].a].maint \in {"done", "failed"}

(* The sweep branch alone: there the interceptors wait for readyPromise. *)
C9_SweepBranchOnly ==
  \A r \in Reqs :
    (CalledStore(r) /\ ~opts[req[r].a].clear) => ad[req[r].a].maint \in {"done", "failed"}

(* C10: attach maintenance is best effort.  If the clear or the sweep      *)
(* started by onAttach fails, the adapter stays attached and usable: no    *)
(* later interception raises, and a request whose response is successful   *)
(* returns normally, with what the host pipeline decodes when fetched.     *)
C10_AttachMaintenanceBestEffort ==
  \A r \in Reqs :
    LET q == req[r]
    IN  /\ q.err # "ready"
        /\ ( /\ Over(r) /\ ad[q.a].maint = "failed"
             /\ WellFormed(q.cfg) /\ q.err # "abort"
             /\ q.fetched => q.resp.ok )
           => (q.pc = "done" /\ q.err = "" /\ (q.fetched => q.result = HostResult(q.resp)))

(* The store.get of the execution in slot r failed and the interceptor has  *)
(* resumed; the store.set of the execution in slot r failed.               *)
GetFailed(r) == req[r].got = StoreError /\ req[r].pc # "rq_got"

SetFailed(r) == req[r].sets = 1 /\ ~req[r].wrote /\ Over(r)

(* C11: store failures inside the interceptors are isolated.  A failed     *)
(* store.get is logged and treated as a miss: the request goes on to the   *)
(* network.  A failed store.set is logged, the entry is not written and    *)
(* the interceptor completes normally.  In both cases execute() settles as *)
(* the network response alone decides, never with the store's error.       *)
C11_StoreFailureIsolation ==
  \A r \in Reqs :
    LET q == req[r]
    IN  /\ GetFailed(r)
           => (q.logged >= 1 /\ ~q.hit /\ ~q.looked /\ (q.pc = "fetch" \/ q.fetched))
        /\ SetFailed(r)
           => (q.logged >= 1 /\ q.pc = "done" /\ q.result = HostResult(q.resp))
        /\ (Over(r) /\ q.logged > 0)
           => /\ q.err \in {"", "http", "abort"}
              /\ q.fetched
              /\ (q.err = "" /\ q.resp.ok) => (q.pc = "done" /\ q.result = HostResult(q.resp))
              /\ q.err = "http" => ~q.resp.ok
        /\ q.logged = (IF GetFailed(r) THEN 1 ELSE 0)
                      + (IF q.sets = 1 /\ ~q.wrote /\ Over(r) /\ q.err # "abort" THEN 1 ELSE 0)

(* an execution whose store.get and store.set both failed, and which       *)
(* returned the fetched response all the same                              *)
C11_Witness ==
  \E r \in Reqs :
    /\ GetFailed(r) /\ SetFailed(r)
    /\ req[r].logged = 2 /\ req[r].pc = "done" /\ req[r].fetched
    /\ req[r].result = HostResult(req[r].resp)
    /\ \A n \in Names : DOMAIN db[n] = {}

(* meta.cache is present and is neither a number nor an object carrying a  *)
(* numeric ttlSeconds or a boolean hashBody.                               *)
Malformed(c) ==
  \/ c.k \in {"str", "null"}
  \/ (c.k = "obj" /\ ~c.hasTtl /\ ~c.hasHb)

(* C12: malformed config.  When meta.cache is present but neither a number *)
(* nor an object carrying a numeric ttlSeconds or a boolean hashBody (a    *)
(* string, null, an empty object), the request interceptor raises a        *)
(* configuration error that rejects execute(), before any fingerprint,     *)
(* store.get or store.set of that request, and before any fetch.           *)
C12_MalformedConfig ==
  \A r \in Reqs :
    LET q == req[r]
    IN  (q.pc # "idle" /\ Malformed(q.cfg.cache))
        => /\ q.gets = 0 /\ q.sets = 0 /\ q.hashCalls = 0 /\ q.filterCalls = 0
           /\ ~q.fetched
           /\ q.pc \in {"rq_ready", "failed"}
           /\ (q.pc = "failed" /\ ad[q.a].readyPromise # "rejected") => q.err = "config"

(* the three ill-formed shapes have each been rejected, one after the other *)
C12_Witness ==
  /\ started = 3 /\ fetchCount = 0
  /\ \E r \in Reqs :
       /\ req[r].pc = "failed" /\ req[r].err = "config"
       /\ Malformed(req[r].cfg.cache)
       /\ req[r].cfg.cache.k = "obj"

(* The entries the response interceptor has handed to store.set and that   *)
(* are not yet written, and the entries in the stores.                     *)
PendingEntries ==
  { op.entry : op \in { o \in UNION { {txq[n][i] : i \in DOMAIN txq[n]} : n \in Names }
                               \cup UNION { {ad[a].waiting[i] : i \in DOMAIN ad[a].waiting}
                                             : a \in Adapters }
                          : o.kind = "set" } }

StoredEntries == UNION { {db[n][h] : h \in DOMAIN db[n]} : n \in Names }

(* C13: CacheEntry invariant.  Every entry written by the response         *)
(* interceptor has expiresAt = createdAt + ttlSeconds * 1000 and           *)
(* expiresAt > createdAt, for every meta.cache that passes the conformance *)
(* check and the nonzero gate on ttlSeconds.                               *)
C13_CacheEntryInvariant ==
  /\ \A e \in PendingEntries \cup StoredEntries : e.expiresAt > e.createdAt
  /\ \A n \in Names : \A h \in DOMAIN db[n] :
       LET w == VerOf(ver[n], h)
       IN  /\ db[n][h].createdAt = w.at /\ db[n][h].expiresAt = w.expiresAt
           /\ db[n][h].expiresAt = db[n][h].createdAt + TtlOf(w.cfg) * MsPerSecond

(* The part of the invariant that holds whatever the sign of ttlSeconds. *)
C13_ExpiryArithmetic ==
  \A n \in Names : \A h \in DOMAIN db[n] :
    LET w == VerOf(ver[n], h)
    IN  /\ db[n][h].expiresAt = db[n][h].createdAt + TtlOf(w.cfg) * MsPerSecond
        /\ TtlOf(w.cfg) > 0 => db[n][h].expiresAt > db[n][h].createdAt

(* C14: write-time TTL.  The lifetime of an entry is fixed when it is      *)
(* written: a later request for the same fingerprint with another nonzero  *)
(* ttlSeconds does not change the stored expiresAt by looking it up, and   *)
(* whether it hits depends only on the stored expiresAt and the time of    *)
(* the lookup.                                                             *)
C14_WriteTimeTtl ==
  \A r \in Reqs :
    LET q == req[r]
        n == NameOf(q.a)
    IN  (q.looked /\ q.got.t = "entry")
        => /\ q.hit <=> (q.lookupAt < q.got.expiresAt)
           /\ q.got.createdAt = q.seen.at
           /\ q.got.expiresAt = q.seen.at + q.seen.ttl * MsPerSecond
           /\ VerOf(ver[n], q.hash).v = q.seen.v
              => (q.hash \in DOMAIN db[n] /\ db[n][q.hash] = q.got)

(* an entry written with ttlSeconds 2, served at a time when the shorter   *)
(* TTL of the request reading it has already run out, and left as it was   *)
C14_Witness ==
  \E r \in Reqs :
    LET q == req[r]
    IN  /\ q.looked /\ q.hit /\ q.got.t = "entry"
        /\ TtlOf(q.cfg) > 0 /\ TtlOf(q.cfg) < q.seen.ttl
        /\ q.lookupAt >= q.got.createdAt + TtlOf(q.cfg) * MsPerSecond
        /\ db[NameOf(q.a)][q.hash] = q.got

(* an entry written with ttlSeconds 1, missed by a request of longer TTL   *)
(* that would still have covered the time of the lookup                    *)
C14_LongerReader ==
  \E r \in Reqs :
    LET q == req[r]
    IN  /\ q.looked /\ ~q.hit /\ q.got.t = "entry"
        /\ TtlOf(q.cfg) > q.seen.ttl
        /\ q.lookupAt < q.got.createdAt + TtlOf(q.cfg) * MsPerSecond

(* The execution in slot r fetched, and the response interceptor has dealt *)
(* with a response that is absent or not ok.                               *)
FailedResponse(r) ==
  /\ req[r].fetched /\ req[r].err # "abort"
  /\ req[r].pc # "rs_ready"
  /\ ~req[r].resp.ok

(* C15: only successful responses are cached.  The response interceptor    *)
(* never writes to the store when the response is absent or not ok,        *)
(* whatever the TTL, the explicitness, the filter and the content type;    *)
(* an entry already stored under the fingerprint is neither replaced nor   *)
(* removed by a failed response.                                           *)
C15_OnlySuccessfulResponses ==
  /\ \A r \in Reqs :
       LET q == req[r]
           n == NameOf(q.a)
       IN  FailedResponse(r)
           => /\ q.sets = 0 /\ ~q.wrote /\ q.hashCalls = q.gets
              /\ q.pc = "failed"
              /\ (q.looked /\ q.got.t = "entry" /\ VerOf(ver[n], q.hash).v = q.seen.v)
                 => (q.hash \in DOMAIN db[n] /\ db[n][q.hash] = q.got)
  /\ \A n \in Names : \A h \in DOMAIN db[n] : VerOf(ver[n], h).resp.ok
  /\ \A e \in PendingEntries : \E r \in Reqs : req[r].pc = "rs_set" /\ req[r].resp.ok

(* an explicit request whose stored entry had expired, answered by a       *)
(* failed JSON response: the expired entry is still the stored one         *)
C15_Witness ==
  \E r \in Reqs :
    LET q == req[r]
    IN  /\ FailedResponse(r) /\ Over(r)
        /\ q.cfg.epHasCache /\ isJSONResponse(q.resp.ct)
        /\ q.looked /\ q.got.t = "entry" /\ ~q.hit
        /\ db[NameOf(q.a)][q.hash] = q.got

(* C16: caching disabled at TTL 0.  When the resolved ttlSeconds is 0      *)
(* (meta.cache absent, 0, or an object without ttlSeconds) both            *)
(* interceptors pass through without calling the filter, the fingerprint   *)
(* capability, store.get or store.set, also when the endpoint declares a   *)
(* cache key and the request is explicit: the request is fetched and       *)
(* returns what the host pipeline decodes.                                 *)
C16_DisabledAtTtlZero ==
  \A r \in Reqs :
    LET q == req[r]
    IN  (q.pc # "idle" /\ ~Malformed(q.cfg.cache) /\ TtlOf(q.cfg) = 0)
        => /\ q.filterCalls = 0 /\ q.hashCalls = 0 /\ q.gets = 0 /\ q.sets = 0
           /\ q.hash = NoHash /\ ~q.hit /\ ~q.looked /\ ~q.wrote
           /\ q.pc \in {"rq_ready", "fetch", "rs_ready", "done", "failed"}
           /\ q.err # "config"
           /\ (Over(r) /\ q.err \notin {"ready", "abort"})
              => (q.fetched /\ q.result = HostResult(q.resp))

(* an explicit request (its endpoint declares cache: 0) executed twice     *)
(* and fetched twice, the store left empty                                 *)
C16_Witness ==
  \E r \in Reqs :
    LET q == req[r]
    IN  /\ Over(r) /\ q.cfg.epHasCache /\ isExplicitCache(q.cfg) /\ TtlOf(q.cfg) = 0
        /\ q.pc = "done" /\ q.fetched
        /\ fetchCount = 2 /\ started = 2
        /\ \A n \in Names : DOMAIN db[n] = {}

Runs(n, kind) ==
  /\ txq[n] # <<>>
  /\ Head(txq[n]).kind = kind
  /\ txq'[n] = Tail(txq[n])
  /\ kind \in {"sweep", "clear"} => ad'[Head(txq[n]).by].maint = "done"
  /\ kind = "clearCache" => ad'[Head(txq[n]).by].cc = "done"
  /\ kind = "set" => req'[Head(txq[n]).r].wrote

(* C18: cleanupExpired(now) deletes every entry whose expiresAt <= now and *)
(* no other: when it completes, the store is the store it ran on           *)
(* restricted to the entries with expiresAt > now, each of them unchanged. *)
C18_CleanupExpired ==
  [][ \A n \in Names :
        Runs(n, "sweep")
        => LET t == Head(txq[n]).nowMs
               kept == {h \in DOMAIN db[n] : db[n][h].expiresAt > t}
           IN  /\ DOMAIN db'[n] = kept
               /\ \A h \in kept : db'[n][h] = db[n][h] ]_vars

(* a sweep has removed an entry that expired exactly at the time given to  *)
(* it and has kept the entry that was still alive                          *)
C18_Witness ==
  /\ sc \in SweepScenarios
  /\ \E a \in Adapters, n \in Names :
       /\ ad[a].maint = "done" /\ NameOf(a) = n
       /\ \E h \in DOMAIN ad[a].snap :
            /\ ad[a].snap[h].live
            /\ h \notin DOMAIN db[n]
            /\ ver[n][h].v = ad[a].snap[h].v + 1
            /\ ad[a].snap[h].expiresAt = now
       /\ \E h \in DOMAIN db[n] :
            /\ h \in DOMAIN ad[a].snap
            /\ ver[n][h] = ad[a].snap[h]
            /\ db[n][h].expiresAt > now

(* C19: set(entry) is an upsert by hash.  When it completes, get of the    *)
(* entry's hash returns exactly that entry, whatever was stored under the  *)
(* hash before (of two sets on one hash the later wins), the entries under *)
(* other hashes are unchanged, the store holds one entry per hash, and     *)
(* applying the same set once more changes nothing.                        *)
C19_SetIsUpsert ==
  [][ \A n \in Names :
        Runs(n, "set")
        => LET e == Head(txq[n]).entry
           IN  /\ StoreGet(db'[n], e.hash) = e
               /\ DOMAIN db'[n] = DOMAIN db[n] \cup {e.hash}
               /\ \A h \in DOMAIN db[n] \ {e.hash} : db'[n][h] = db[n][h]
               /\ \A h \in DOMAIN db'[n] : db'[n][h].hash = h
               /\ Apply(db'[n], Head(txq[n])) = db'[n] ]_vars

(* a set has replaced the expired entry its request had found under the    *)
(* same hash, next to an entry under another hash                          *)
C19_Witness ==
  \E r \in Reqs :
    LET q == req[r]
        n == NameOf(q.a)
    IN  /\ Over(r) /\ q.wrote /\ q.looked /\ q.got.t = "entry"
        /\ VerOf(ver[n], q.hash).v = q.seen.v + 1
        /\ q.hash \in DOMAIN db[n]
        /\ db[n][q.hash].createdAt > q.got.createdAt
        /\ Cardinality(DOMAIN db[n]) = 2

(* The history, when the last clearCache() of adapter a was called, of the *)
(* key h of its cache.                                                     *)
AtClearCache(a, h) == VerOf(ad[a].ccSnap, h)

(* C20: clearCache() empties the cache on demand.  Once it has completed,  *)
(* every entry that was in the store when it was called is gone, so that   *)
(* the next request for a key cached until then misses and fetches; it may *)
(* be called at any time, whether or not a request is in progress.         *)
C20_ClearCache ==
  /\ \A a \in Adapters :
       ad[a].cc = "done"
       => \A h \in DOMAIN db[NameOf(a)] :
            VerOf(ver[NameOf(a)], h).v
              > AtClearCache(a, h).v + (IF AtClearCache(a, h).live THEN 1 ELSE 0)
  /\ \A r \in Reqs :
       LET q == req[r]
           a == q.a
       IN  ( /\ q.looked /\ q.ccDone /\ q.ccN = ad[a].clears
             /\ AtClearCache(a, q.hash).live
             /\ q.seen.v <= AtClearCache(a, q.hash).v + 1 )
           => (~q.hit /\ q.got = NullEntry /\ (q.pc = "fetch" \/ q.fetched))

(* clearCache() called while a request was in progress and completed: the  *)
(* next request for the key, cached and within its TTL at the call, has    *)
(* missed and fetched                                                      *)
C20_Witness ==
  /\ sc \in ClearCacheScenarios
  /\ \E r \in Reqs :
       LET q == req[r]
           a == q.a
       IN  /\ Over(r) /\ q.looked /\ q.ccDone /\ q.ccN = ad[a].clears
           /\ AtClearCache(a, q.hash).live
           /\ q.lookupAt < AtClearCache(a, q.hash).expiresAt
           /\ q.seen.v = AtClearCache(a, q.hash).v + 1
           /\ ~q.hit /\ q.fetched /\ q.pc = "done"
           /\ fetchCount = 2

(* a clearCache() pending while a request is between its lookup and its write *)
C20_DuringRequest ==
  \E a \in Adapters, r \in Reqs :
    ad[a].cc = "pending" /\ req[r].a = a /\ req[r].pc \in {"fetch", "rs_ready", "rs_read"}

(* The executions whose store.set wrote under hash h of cache n. *)
Writers(n, h) ==
  {r \in Reqs : req[r].wrote /\ NameOf(req[r].a) = n /\ req[r].hash = h}

(* The execution in slot r looked its key up and found nothing to serve. *)
Missed(r) == req[r].looked /\ ~req[r].hit

(* C21: no de-duplication of concurrent identical requests.  Every request *)
(* that missed and fetched a storable response calls store.set, whatever   *)
(* other request of the same fingerprint is in flight, so two of them may  *)
(* both miss, both fetch and both write; the store then holds one entry    *)
(* for the fingerprint, the entry of the set that ran last.                *)
C21_NoDeduplication ==
  /\ \A r \in Reqs :
       LET q == req[r]
       IN  ( /\ q.pc \in {"rs_set", "done"}
             /\ Missed(r) /\ q.fetched /\ Storable(q.resp)
             /\ opts[q.a].hashOk )
           => (q.sets = 1 /\ q.entry.t = "entry" /\ q.entry.hash = q.hash
                /\ q.entry.body = readResponseSafely(q.resp))
  /\ \A n \in Names : \A h \in DOMAIN db[n] :
       /\ db[n][h].hash = h
       /\ \A r \in Writers(n, h) :
            /\ req[r].wroteV <= ver[n][h].v
            /\ req[r].wroteV = ver[n][h].v => db[n][h] = req[r].entry
            /\ \A x \in Writers(n, h) \ {r} : req[x].wroteV # req[r].wroteV

(* two requests of one fingerprint that both found the store empty, both   *)
(* fetched and both wrote: the one entry stored is that of the later set   *)
C21_Witness ==
  \E r1, r2 \in Reqs :
    LET n == NameOf(req[r1].a)
        h == req[r1].hash
    IN  /\ r1 # r2 /\ Over(r1) /\ Over(r2)
        /\ req[r1].cfg = req[r2].cfg /\ req[r2].hash = h /\ req[r2].a = req[r1].a
        /\ Missed(r1) /\ Missed(r2)
        /\ req[r1].got = NullEntry /\ req[r2].got = NullEntry
        /\ req[r1].fetched /\ req[r2].fetched /\ fetchCount = 2
        /\ req[r1].wrote /\ req[r2].wrote
        /\ req[r1].wroteV = 1 /\ req[r2].wroteV = 2
        /\ req[r1].entry # req[r2].entry
        /\ DOMAIN db[n] = {h}
        /\ db[n][h] = req[r2].entry

(* The store.set calls made and not yet run. *)
PendingSets ==
  { o \in UNION { {txq[n][i] : i \in DOMAIN txq[n]} : n \in Names }
           \cup UNION { {ad[a].waiting[i] : i \in DOMAIN ad[a].waiting} : a \in Adapters }
      : o.kind = "set" }

(* The execution in slot r was cancelled, or failed in transport, before a *)
(* response was delivered.                                                 *)
Cancelled(r) == req[r].err = "abort"

(* C22: cancellation writes nothing.  A store write for a request is made  *)
(* only by its response interceptor, for a delivered successful response;  *)
(* a request cancelled before its response is delivered never calls        *)
(* store.set, the step that cancels it leaves the stores and the pending   *)
(* store operations as they were, and the entry under its fingerprint is   *)
(* neither created nor updated by it.                                      *)
C22_CancellationWritesNothing ==
  /\ [] ( /\ \A r \in Reqs :
              LET q == req[r]
                  n == NameOf(q.a)
              IN  Cancelled(r)
                  => /\ q.pc = "failed" /\ q.resp = NoResp
                     /\ q.sets = 0 /\ ~q.wrote /\ q.wroteV = 0 /\ q.entry = NullEntry
                     /\ (q.looked /\ VerOf(ver[n], q.hash).v = q.seen.v)
                        => StoreGet(db[n], q.hash) = q.got
          /\ \A o \in PendingSets :
               /\ req[o.r].pc = "rs_set" /\ req[o.r].fetched /\ req[o.r].resp.ok
               /\ ~Cancelled(o.r)
               /\ o.entry = req[o.r].entry
          /\ \A r \in Reqs : req[r].sets > 0 => (req[r].fetched /\ req[r].resp.ok) )
  /\ [][ \A r \in Reqs :
           (~Cancelled(r) /\ req'[r].err = "abort")
           => (db' = db /\ ver' = ver /\ txq' = txq /\ ad' = ad) ]_vars

(* a request cancelled after its lookup found an expired entry: the entry  *)
(* is still the stored one, and nothing has been written since             *)
C22_Witness ==
  \E r \in Reqs :
    LET q == req[r]
        n == NameOf(q.a)
    IN  /\ Over(r) /\ Cancelled(r) /\ q.looked /\ ~q.hit /\ q.got.t = "entry"
        /\ q.sets = 0
        /\ VerOf(ver[n], q.hash).v = q.seen.v
        /\ db[n][q.hash] = q.got
        /\ txq[n] = <<>>

(* The fingerprinting capability of the factory the execution in slot r    *)
(* runs on raises when asked for the hash.                                 *)
HashUnavailable(r) == req[r].pc # "idle" /\ ~opts[req[r].a].hashOk

(* C23: fingerprint unavailable.  When controls.getHash raises, the        *)
(* request interceptor returns no value and the response interceptor       *)
(* completes: neither raises, neither calls store.get or store.set, and    *)
(* the request is fetched and settles as its response alone decides.       *)
C23_FingerprintUnavailable ==
  \A r \in Reqs :
    LET q == req[r]
    IN  HashUnavailable(r)
        => /\ q.gets = 0 /\ q.sets = 0 /\ q.hash = NoHash /\ q.entry = NullEntry
           /\ ~q.hit /\ ~q.looked /\ ~q.wrote /\ q.logged = 0
           /\ q.err \in {"", "http", "abort", "ready", "config"}
           /\ q.pc \in {"rq_ready", "fetch", "rs_ready", "rs_read", "done", "failed"}
           /\ q.hashCalls <= 2
           /\ q.hashCalls >= 1 => (q.pc # "rq_ready" /\ q.err \notin {"ready", "config"})
           /\ (Over(r) /\ q.err \notin {"ready", "abort", "config"})
              => /\ q.fetched
                 /\ q.result = HostResult(q.resp)
                 /\ q.resp.ok => q.pc = "done"

(* a request whose fingerprint was asked for and refused in both           *)
(* interceptors, fetched twice and returned normally, nothing stored       *)
C23_Witness ==
  \E r \in Reqs :
    LET q == req[r]
    IN  /\ HashUnavailable(r) /\ Over(r) /\ q.pc = "done"
        /\ HashBodyOf(q.cfg) /\ q.fetched /\ Storable(q.resp)
        /\ q.hashCalls = 2 /\ q.gets = 0 /\ q.sets = 0
        /\ started = 2 /\ fetchCount = 2
        /\ \A n \in Names : DOMAIN db[n] = {}

(* The normal form C24 gives for a conforming meta.cache. *)
Normalised(c) ==
  CASE c.k = "undef" -> [ttlSeconds |-> 0, hashBody |-> FALSE]
    [] c.k = "num" -> [ttlSeconds |-> c.n, hashBody |-> FALSE]
    [] c.k = "obj" -> [ttlSeconds |-> IF c.hasTtl THEN c.n ELSE 0,
                       hashBody |-> IF c.hasHb THEN c.hb ELSE FALSE]

(* C24: configuration normalisation.  resolveCacheMetaConfig maps an       *)
(* absent meta.cache to {ttlSeconds: 0, hashBody: false}, a bare number N  *)
(* to {ttlSeconds: N, hashBody: false}, and a conforming object to its     *)
(* ttlSeconds and hashBody, a missing ttlSeconds counting as 0 and a       *)
(* missing hashBody as false; the interceptors act on that normal form:    *)
(* no store call at ttlSeconds 0, the entry's lifetime and the body's part *)
(* in the key otherwise.                                                   *)
C24_ConfigNormalisation ==
  \A r \in Reqs :
    LET q == req[r]
        c == q.cfg.cache
        m == resolveCacheMetaConfig(c)
    IN  (q.pc # "idle" /\ ~Malformed(c))
        => /\ ~m.err
           /\ m.ttlSeconds = Normalised(c).ttlSeconds
           /\ m.hashBody = Normalised(c).hashBody
           /\ Normalised(c).ttlSeconds = 0 => (q.gets = 0 /\ q.sets = 0)
           /\ q.gets + q.sets > 0
              => q.hash.b = (IF Normalised(c).hashBody THEN q.cfg.body ELSE "-")
           /\ q.entry.t = "entry"
              => q.entry.expiresAt
                   = q.entry.createdAt + Normalised(c).ttlSeconds * MsPerSecond

(* a request whose meta.cache is an object with ttlSeconds only has been   *)
(* cached for that time under a key without its body, after a request      *)
(* whose meta.cache is an object with hashBody only passed through         *)
C24_Witness ==
  /\ started >= 2 /\ fetchCount >= 2
  /\ \E r \in Reqs :
       LET q == req[r]
       IN  /\ Over(r) /\ q.cfg.cache = ObjTtl(2) /\ q.cfg.body # ""
           /\ q.wrote /\ q.hash.b = "-"
           /\ q.entry.expiresAt = q.entry.createdAt + 2 * MsPerSecond
           /\ DOMAIN db[NameOf(q.a)] = {q.hash}

(* The response interceptor of the execution in slot r has run past its    *)
(* body extraction, or returned before it.                                 *)
Extracted(r) ==
  req[r].fetched /\ req[r].pc \in {"rs_set", "done", "failed"} /\ req[r].err # "abort"

(* C25: body extraction leaves the original response untouched.  Whatever  *)
(* path the response interceptor takes (JSON parsed, text read, parse      *)
(* failure, type skipped, response not read at all), the body of the       *)
(* response it was given has not been read when it returns: extraction     *)
(* reads clones only, and the consumer downstream reads the body and gets  *)
(* what it decodes to.                                                     *)
C25_OriginalResponseUntouched ==
  \A r \in Reqs :
    LET q == req[r]
    IN  /\ ~q.bodyUsed
        /\ (Extracted(r) /\ q.sets = 1)
           => q.entry.body \in {JSONParse(q.resp.raw), TextRead(q.resp.raw)}
        /\ (Over(r) /\ q.fetched /\ q.resp.ok /\ q.err \notin {"abort", "ready", "config"})
           => q.result = HostDecode(q.resp)

(* a JSON response parsed and stored by the interceptor, then read again   *)
(* by the host, which returned the same value                              *)
C25_Witness ==
  \E r \in Reqs :
    LET q == req[r]
    IN  /\ Over(r) /\ Extracted(r) /\ q.resp = JsonA /\ q.wrote
        /\ q.entry.body = JSONParse(q.resp.raw)
        /\ q.pc = "done" /\ q.result = q.entry.body
        /\ ~q.bodyUsed

(* a JSON response that does not parse: read by the interceptor, skipped,  *)
(* and still unread for the host                                           *)
C25_ParseFailure ==
  \E r \in Reqs :
    LET q == req[r]
    IN  /\ Over(r) /\ Extracted(r) /\ q.resp = BadJson
        /\ q.sets = 0 /\ q.gets = 1 /\ ~q.bodyUsed

(* C26: namespace by cache name.  Adapters constructed with the same       *)
(* cacheName work on one set of entries: an entry written through one is a *)
(* hit through the other, and the clear of one removes the entries for     *)
(* both.  The operations of an adapter never run on, and its lookups never *)
(* see, the entries of another cache name: a store changes only when an    *)
(* operation of an adapter of its name runs.                               *)
C26_NamespaceByCacheName ==
  /\ [] ( /\ \A n \in Names : \A i \in DOMAIN txq[n] : NameOf(txq[n][i].by) = n
          /\ \A n \in Names : \A h \in DOMAIN ver[n] :
               ver[n][h].live => NameOf(ver[n][h].by) = n
          /\ \A r \in Reqs :
               LET q == req[r]
               IN  /\ (q.looked /\ q.seen.live) => NameOf(q.seen.by) = NameOf(q.a)
                   /\ ( /\ q.looked /\ q.pred.live /\ q.pred.cfg = q.cfg
                        /\ q.seen.v = q.pred.v /\ q.lookupAt < q.pred.expiresAt )
                      => (q.hit /\ ~q.fetched /\ q.result = ResultOf(q.pred))
          /\ \A a \in Adapters :
               (opts[a].clear /\ ad[a].maint = "done")
               => \A b \in Adapters :
                    NameOf(b) = NameOf(a)
                    => \A h \in DOMAIN ad[a].snap :
                         ad[a].snap[h].live => VerOf(ver[NameOf(b)], h).v > ad[a].snap[h].v )
  /\ [][ \A n \in Names :
           (db'[n] # db[n] \/ ver'[n] # ver[n])
           => (txq[n] # <<>> /\ NameOf(Head(txq[n]).by) = n) ]_vars

(* same cache name: a request through the second adapter served the entry  *)
(* written through the first, and the clear of the second has then removed *)
(* it for the first, whose next request fetched again                      *)
C26_Witness ==
  \E r \in Reqs :
    LET q == req[r]
    IN  /\ Over(r) /\ q.a = 1 /\ NameOf(1) = NameOf(2)
        /\ ad[2].maint = "done"
        /\ AtAttach(2, q.hash).live /\ AtAttach(2, q.hash).by = 1
        /\ q.lookupAt < AtAttach(2, q.hash).expiresAt
        /\ q.looked /\ ~q.hit /\ q.got = NullEntry /\ q.fetched
        /\ fetchCount = 2

(* same cache name: an entry written through one adapter is a hit through  *)
(* the other                                                               *)
C26_SharedHit ==
  \E r \in Reqs :
    /\ Over(r) /\ req[r].a = 2 /\ req[r].hit /\ req[r].seen.by = 1
    /\ fetchCount = 1 /\ started = 2

(* another cache name: the second adapter has cleared its own cache and    *)
(* cached the same request there, and the entry of the first is untouched  *)
C26_OtherName ==
  /\ NameOf(1) # NameOf(2) /\ ad[2].maint = "done"
  /\ \E h \in DOMAIN db[NameOf(1)] :
       /\ ver[NameOf(1)][h].v = 1 /\ ver[NameOf(1)][h].by = 1
       /\ h \in DOMAIN db[NameOf(2)] /\ ver[NameOf(2)][h].by = 2

(* The attach-time store operations of adapter a that are queued or await  *)
(* the open, as positions in the queue of its database and in its waiting  *)
(* list.                                                                   *)
MaintQueued(a) ==
  {i \in DOMAIN txq[NameOf(a)] :
     txq[NameOf(a)][i].by = a /\ txq[NameOf(a)][i].kind \in {"clear", "sweep"}}

MaintWaiting(a) ==
  {i \in DOMAIN ad[a].waiting : ad[a].waiting[i].kind \in {"clear", "sweep"}}

MaintKind(a) == IF opts[a].clear THEN "clear" ELSE "sweep"

(* The store operation a step has added for adapter a: the last of its    *)
(* waiting list if that grew, else the last of the queue of its database.  *)
Added(a) ==
  IF Len(ad'[a].waiting) > Len(ad[a].waiting)
  THEN ad'[a].waiting[Len(ad'[a].waiting)]
  ELSE txq'[NameOf(a)][Len(txq'[NameOf(a)])]

(* C27: attach starts exactly one maintenance action, chosen by the clear  *)
(* option.  With clear true it is a clear of the whole cache and no sweep; *)
(* with clear false it is cleanupExpired(attach time) and no clear, which  *)
(* leaves every entry with expiresAt > attach time as it was: such an      *)
(* entry, if nothing else touches it, is a hit for the lookups made before *)
(* it expires.                                                             *)
C27_AttachMaintenance ==
  /\ [] ( /\ \A a \in Adapters :
               /\ Cardinality(MaintQueued(a)) + Cardinality(MaintWaiting(a))
                    = (IF ad[a].maint = "pending" THEN 1 ELSE 0)
               /\ ad[a].attached <=> ad[a].maint # "none"
               /\ \A i \in MaintQueued(a) : txq[NameOf(a)][i].kind = MaintKind(a)
               /\ \A i \in MaintWaiting(a) : ad[a].waiting[i].kind = MaintKind(a)
          /\ \A r \in Reqs :
               LET q == req[r]
                   b == q.a
               IN  ( /\ q.looked /\ ~opts[b].clear /\ ad[b].maint = "done"
                     /\ AtAttach(b, q.hash).live
                     /\ q.seen.v <= AtAttach(b, q.hash).v + 1
                     /\ q.lookupAt < AtAttach(b, q.hash).expiresAt )
                   => (q.seen = AtAttach(b, q.hash) /\ q.hit /\ ~q.fetched) )
  /\ [][ /\ \A a \in Adapters :
             (~ad[a].attached /\ ad'[a].attached /\ ad'[a].maint = "pending")
             => /\ Len(ad'[a].waiting) + Len(txq'[NameOf(a)])
                     = Len(ad[a].waiting) + Len(txq[NameOf(a)]) + 1
                /\ Added(a).by = a
                /\ Added(a).kind = MaintKind(a)
                /\ Added(a).kind = "sweep" => Added(a).nowMs = now
         /\ \A n \in Names :
              /\ Runs(n, "sweep")
                 => /\ ~opts[Head(txq[n]).by].clear
                    /\ \A h \in DOMAIN db[n] :
                         db[n][h].expiresAt > Head(txq[n]).nowMs
                         => (h \in DOMAIN db'[n] /\ db'[n][h] = db[n][h]
                             /\ ver'[n][h] = ver[n][h])
              /\ Runs(n, "clear")
                 => (opts[Head(txq[n]).by].clear /\ db'[n] = EmptyStore) ]_vars

(* an adapter attached without clear to a cache holding a live entry       *)
(* written through the other adapter: its sweep has run, and the request   *)
(* it then served, which waited for the sweep, was a hit on that entry     *)
C27_Witness ==
  \E r \in Reqs :
    LET q == req[r]
        b == q.a
    IN  /\ Over(r) /\ q.looked /\ ~opts[b].clear /\ ad[b].maint = "done"
        /\ AtAttach(b, q.hash).live /\ AtAttach(b, q.hash).by # b
        /\ q.seen = AtAttach(b, q.hash)
        /\ q.hit /\ ~q.fetched
        /\ q.lookupAt > q.seen.at

(* an adapter attached without clear to a cache holding an expired entry:  *)
(* its sweep has removed the entry                                         *)
C27_SweptExpired ==
  \E b \in Adapters : \E g \in DOMAIN ad[b].snap :
    /\ ~opts[b].clear /\ ad[b].maint = "done"
    /\ ad[b].snap[g].live /\ ad[b].snap[g].expiresAt <= now
    /\ VerOf(ver[NameOf(b)], g).v = ad[b].snap[g].v + 1
    /\ g \notin DOMAIN db[NameOf(b)]

(* an adapter attached with clear: true: its one maintenance operation, a  *)
(* clear, is queued on a cache that holds an entry                         *)
C27_ClearBranch ==
  \E a \in Adapters :
    /\ opts[a].clear /\ ad[a].maint = "pending"
    /\ \E i \in MaintQueued(a) : txq[NameOf(a)][i].kind = "clear"
    /\ DOMAIN db[NameOf(a)] # {}

(* The store operations of adapter a that are queued on its database. *)
QueuedBy(a) == {i \in DOMAIN txq[NameOf(a)] : txq[NameOf(a)][i].by = a}

(* C28: store initialisation is one-way.  The dbPromise of a store goes    *)
(* from null (uninitialised) to pending (opening) and from there to        *)
(* resolved (ready) or rejected (failed), and never changes afterwards.    *)
(* After a failed open every later operation of that store fails without   *)
(* starting indexedDB.open again; after a successful one every operation   *)
(* goes to the database without opening.                                   *)
C28_OneWayInitialisation ==
  /\ [] ( \A a \in Adapters :
            /\ ad[a].dbPromise \in {"null", "pending", "resolved", "rejected"}
            /\ ad[a].opens = (IF ad[a].dbPromise = "null" THEN 0 ELSE 1)
            /\ ad[a].dbPromise # "pending" => ad[a].waiting = <<>>
            /\ ad[a].dbPromise # "resolved" => QueuedBy(a) = {}
            /\ ad[a].dbPromise = "rejected"
               => /\ ad[a].maint \in {"none", "failed"}
                  /\ ad[a].cc \in {"idle", "failed"}
                  /\ \A r \in Reqs :
                       req[r].a = a
                       => /\ req[r].pc \notin {"rq_get", "rs_set"}
                          /\ req[r].gets > 0 => (req[r].got = StoreError /\ ~req[r].looked)
                          /\ req[r].sets > 0 => ~req[r].wrote )
  /\ [][ \A a \in Adapters :
           /\ ad'[a].dbPromise # ad[a].dbPromise
              => \/ ad[a].dbPromise = "null" /\ ad'[a].dbPromise = "pending"
                 \/ ad[a].dbPromise = "pending" /\ ad'[a].dbPromise \in {"resolved", "rejected"}
           /\ ad'[a].opens # ad[a].opens => ad[a].dbPromise = "null" ]_vars

(* a store whose one open failed: the request made after the failure had   *)
(* its lookup and its write fail, without another open                     *)
C28_Witness ==
  \E a \in Adapters, r \in Reqs :
    /\ ad[a].dbPromise = "rejected" /\ ad[a].opens = 1
    /\ ad[a].maint = "failed" /\ opts[a].clear
    /\ req[r].a = a /\ Over(r) /\ started = 2
    /\ req[r].gets = 1 /\ req[r].got = StoreError
    /\ req[r].sets = 1 /\ ~req[r].wrote /\ req[r].logged = 2

(* a store whose one open failed: the clearCache() called afterwards, the  *)
(* sweep having failed with the open, has failed as well                   *)
C28_ClearCacheFails ==
  \E a \in Adapters :
    /\ ad[a].dbPromise = "rejected" /\ ad[a].opens = 1
    /\ ad[a].maint = "failed" /\ ad[a].cc = "failed"
    /\ AtClearCache(a, KeyOf(GetX(Num(2)))) = NoVer /\ now > 0

(* a store whose open succeeded, used by a second request without opening  *)
C28_Ready ==
  \E a \in Adapters, r \in Reqs :
    /\ ad[a].dbPromise = "resolved" /\ ad[a].opens = 1
    /\ req[r].a = a /\ Over(r) /\ started = 2 /\ req[r].hit

(* The store operations made for the execution in slot r and not yet run. *)
PendingOf(r) ==
  { o \in UNION { {txq[n][i] : i \in DOMAIN txq[n]} : n \in Names }
           \cup UNION { {ad[a].waiting[i] : i \in DOMAIN ad[a].waiting} : a \in Adapters }
      : o.r = r }

(* The request interceptor of the execution in slot r is running, or has   *)
(* returned and the response interceptor has not yet been entered.         *)
BeforeResponse(r) == req[r].pc \in {"rq_ready", "rq_get", "rq_got", "fetch"}

(* The step belongs to the request interceptor of slot r. *)
RqStep(r) == req[r].pc \in {"rq_ready", "rq_got"} /\ req'[r] # req[r]

(* C29: request interception is read-only on the store.  On every path     *)
(* (pass-through, hit, miss, expired entry found, lookup failure) it makes *)
(* at most one store.get and no set, delete or clear: its steps change no  *)
(* store, and a get leaves the store as it was.  An expired entry found by *)
(* a lookup stays in the store, unchanged, until a set, a clear or a sweep *)
(* runs on its key.                                                        *)
C29_RequestInterceptionReadOnly ==
  /\ [] ( \A r \in Reqs :
            LET q == req[r]
                n == NameOf(q.a)
            IN  /\ q.gets <= 1
                /\ (BeforeResponse(r) \/ q.hit)
                   => /\ q.sets = 0 /\ ~q.wrote
                      /\ \A o \in PendingOf(r) : o.kind = "get" /\ q.pc = "rq_get"
                /\ (q.looked /\ q.got.t = "entry" /\ VerOf(ver[n], q.hash).v = q.seen.v)
                   => (q.hash \in DOMAIN db[n] /\ db[n][q.hash] = q.got) )
  /\ [][ /\ \A r \in Reqs : RqStep(r) => (db' = db /\ ver' = ver)
         /\ \A n \in Names :
              /\ Runs(n, "get") => (db'[n] = db[n] /\ ver'[n] = ver[n])
              /\ (db'[n] # db[n] \/ ver'[n] # ver[n])
                 => ( /\ txq[n] # <<>>
                      /\ Head(txq[n]).kind \in {"set", "clear", "sweep", "clearCache"} ) ]_vars

(* a lookup has found an expired entry and missed: the request is on its   *)
(* way to the network and the entry is still stored as it was found        *)
C29_Witness ==
  \E r \in Reqs :
    LET q == req[r]
        n == NameOf(q.a)
    IN  /\ q.pc \in {"fetch", "rs_ready"} /\ q.looked /\ ~q.hit
        /\ q.got.t = "entry" /\ q.lookupAt >= q.got.expiresAt
        /\ q.gets = 1 /\ q.sets = 0
        /\ db[n][q.hash] = q.got /\ txq[n] = <<>>

(* The instants at which the two rules are compared on a store: the       *)
(* present, and for each entry the instant it expires, the millisecond     *)
(* before and the millisecond after.                                       *)
Instants(store) ==
  {now} \cup UNION { {store[h].expiresAt + d : d \in {-1, 0, 1}} : h \in DOMAIN store }

(* The entries of a store that a lookup at time t would serve. *)
Servable(store, t) == {h \in DOMAIN store : IsHit(store[h], t)}

(* C30: sweep and hit rule agree on liveness.  For every time t the        *)
(* entries cleanupExpired(t) deletes, those with expiresAt <= t, are       *)
(* exactly the entries a lookup at t would not serve: a sweep removes no   *)
(* entry a lookup at the same instant would have served and leaves none    *)
(* that such a lookup would treat as expired.                              *)
C30_SweepAgreesWithHitRule ==
  /\ [] ( /\ \A n \in Names : \A t \in Instants(db[n]) :
               /\ Expired(db[n], t) = DOMAIN db[n] \ Servable(db[n], t)
               /\ DOMAIN StoreCleanup(db[n], t) = Servable(db[n], t)
          /\ \A r \in Reqs :
               LET q == req[r]
               IN  (q.looked /\ q.got.t = "entry")
                   => (q.hit <=> Expired((q.hash :> q.got), q.lookupAt) = {}) )
  /\ [][ \A n \in Names :
           Runs(n, "sweep")
           => /\ DOMAIN db'[n] = Servable(db[n], Head(txq[n]).nowMs)
              /\ \A h \in DOMAIN db'[n] : db'[n][h] = db[n][h] ]_vars

(* at the instant an entry expires, a lookup that had read it treats it as *)
(* expired and a sweep started at that instant has removed it              *)
C30_Witness ==
  /\ sc \in AttachScenarios
  /\ \E r \in Reqs, a \in Adapters :
       LET q == req[r]
           n == NameOf(a)
       IN  /\ q.looked /\ ~q.hit /\ q.got.t = "entry"
           /\ q.lookupAt = q.got.expiresAt /\ now = q.lookupAt
           /\ ~opts[a].clear /\ ad[a].maint = "done" /\ NameOf(q.a) = n
           /\ AtAttach(a, q.hash).live /\ AtAttach(a, q.hash) = q.seen
           /\ VerOf(ver[n], q.hash).v = q.seen.v + 1
           /\ q.hash \notin DOMAIN db[n]

(* The step is the response interceptor of slot r going on after            *)
(* readResponseSafely.                                                     *)
RsReadStep(r) == req[r].pc = "rs_read" /\ req'[r] # req[r]

(* The clearCache() calls of adapter a that have completed: the last one   *)
(* called, if it has succeeded.                                            *)
ClearedUpTo(a) == IF ad[a].cc = "done" THEN ad[a].clears ELSE 0

(* C31: clearCache gives no barrier against in-flight requests.  The       *)
(* response interceptor of a request that fetched a storable response      *)
(* calls store.set whether or not a clearCache() was called or completed   *)
(* since the request started, and the set, run after the clear, puts its   *)
(* entry into the emptied store.  Apart from that, the run of a clearCache *)
(* leaves the store empty, an entry enters a store only through the run of *)
(* a store.set called by a response interceptor, and no entry that was     *)
(* stored when clearCache() was called is stored after it completed.       *)
C31_ClearCacheNoBarrier ==
  /\ [] ( /\ \A r \in Reqs :
               LET q == req[r]
                   n == NameOf(q.a)
               IN  q.ccSet > 0
                   => /\ q.sets = 1 /\ q.fetched /\ q.entry.t = "entry"
                      /\ q.ccSet <= ad[q.a].clears
                      /\ q.pc = "rs_set" \/ Over(r)
                      /\ (q.wrote /\ q.wroteV = VerOf(ver[n], q.hash).v)
                         => (q.hash \in DOMAIN db[n] /\ db[n][q.hash] = q.entry)
          /\ \A a \in Adapters :
               ad[a].cc = "done"
               => \A h \in DOMAIN ad[a].ccSnap :
                    AtClearCache(a, h).live
                    => /\ VerOf(ver[NameOf(a)], h) # AtClearCache(a, h)
                       /\ h \in DOMAIN db[NameOf(a)]
                          => db[NameOf(a)][h].createdAt >= AtClearCache(a, h).at
                             /\ VerOf(ver[NameOf(a)], h).v >= AtClearCache(a, h).v + 2 )
  /\ [][ /\ \A r \in Reqs :
              (RsReadStep(r) /\ Storable(req[r].resp) /\ opts[req[r].a].hashOk)
              => /\ req'[r].sets = req[r].sets + 1
                 /\ req'[r].ccSet = ClearedUpTo(req[r].a)
                 /\ req'[r].entry.t = "entry" /\ req'[r].entry.createdAt = now
                 /\ req'[r].pc = "rs_set"
                    => \E o \in PendingSets' : o.r = r /\ o.entry = req'[r].entry
         /\ \A n \in Names :
              /\ Runs(n, "clearCache") => db'[n] = EmptyStore
              /\ \A h \in DOMAIN db'[n] :
                   StoreGet(db[n], h) # db'[n][h]
                   => /\ Runs(n, "set")
                      /\ Head(txq[n]).entry = db'[n][h]
                      /\ req[Head(txq[n]).r].pc = "rs_set"
                      /\ req[Head(txq[n]).r].entry = db'[n][h] ]_vars

(* a request found an expired entry and missed; clearCache() was then      *)
(* called and completed, removing that entry; the response was stored      *)
(* afterwards: the cache holds the new entry, and no request was issued    *)
(* after the clear                                                         *)
C31_Witness ==
  /\ sc \in ClearCacheScenarios
  /\ \E r \in Reqs :
       LET q == req[r]
           a == q.a
           n == NameOf(a)
       IN  /\ Over(r) /\ q.pc = "done" /\ q.looked /\ ~q.hit /\ q.got.t = "entry"
           /\ ad[a].cc = "done" /\ ad[a].clears = 1
           /\ q.ccN = 0 /\ started = 2 /\ fetchCount = 2
           /\ AtClearCache(a, q.hash).live /\ q.seen = AtClearCache(a, q.hash)
           /\ q.ccSet = 1 /\ q.wrote
           /\ q.wroteV = q.seen.v + 2 /\ VerOf(ver[n], q.hash).v = q.wroteV
           /\ DOMAIN db[n] = {q.hash}
           /\ db[n][q.hash] = q.entry /\ db[n][q.hash] # q.got

(* the first request of a run, started on an empty cache: clearCache() was *)
(* called and completed while it was fetching, and its response was stored *)
(* afterwards                                                              *)
C31_FirstRequest ==
  /\ sc \in ClearCacheScenarios
  /\ \E r \in Reqs :
       LET q == req[r]
           a == q.a
           n == NameOf(a)
       IN  /\ Over(r) /\ q.looked /\ q.got = NullEntry /\ started = 1
           /\ ad[a].cc = "done" /\ ad[a].clears = 1 /\ q.ccN = 0
           /\ ad[a].ccSnap = EmptyStore
           /\ q.ccSet = 1 /\ q.wrote /\ q.wroteV = 1
           /\ DOMAIN db[n] = {q.hash} /\ db[n][q.hash] = q.entry

(* The request interceptor of the execution in slot r is running. *)
InRequestInterception(r) == req[r].pc \in {"rq_ready", "rq_get", "rq_got"}

(* The response interceptor of the execution in slot r is running. *)
InResponseInterception(r) == req[r].pc \in {"rs_ready", "rs_read", "rs_set"}

(* The request interceptor of slot r has returned: with no value, and the  *)
(* pipeline is at the fetch, or with the cached body.                      *)
RqReturned(r) == req[r].pc = "fetch" \/ (req[r].pc = "done" /\ req[r].hit)

(* The request interceptor of slot r has raised: the rejection of the      *)
(* readiness gate, or a configuration error.                               *)
RqRaised(r) == req[r].pc = "failed" /\ req[r].err \in {"ready", "config"} /\ ~req[r].fetched

(* The interceptor of slot r is at await this.readyPromise and the promise *)
(* is pending: a request interceptor, since the promise has settled by the *)
(* time a response interceptor is entered.                                 *)
AtGate(r) ==
  /\ req[r].pc \in {"rq_ready", "rs_ready"}
  /\ ad[req[r].a].readyPromise = "pending"

C32_Waiting ==
  \E r1, r2 \in Reqs :
    /\ r1 # r2 /\ AtGate(r1) /\ AtGate(r2) /\ req[r2].a = req[r1].a
    /\ MaintWaiting(req[r1].a) # {}

(* a response interceptor waiting for its store.set next to a request      *)
(* interceptor waiting for its store.get                                   *)
C32_Queued ==
  \E r1, r2 \in Reqs :
    /\ req[r1].pc = "rs_set" /\ req[r2].pc = "rq_get" /\ req[r2].a = req[r1].a
    /\ Len(txq[NameOf(req[r1].a)]) = 2

(* a request interception that ended by raising a configuration error *)
C32_ConfigRaised ==
  \E r \in Reqs :
    /\ RqRaised(r) /\ req[r].err = "config" /\ Malformed(req[r].cfg.cache)
    /\ req[r].gets = 0

(* a request interception that ended by raising the rejection of the       *)
(* readiness gate, the sweep of onAttach having failed                     *)
C32_Raised ==
  \E r \in Reqs :
    /\ RqRaised(r) /\ req[r].err = "ready"
    /\ ad[req[r].a].maint = "failed" /\ ad[req[r].a].readyPromise = "rejected"

====
